---- MODULE Spec2Model ----
(***************************************************************************)
(* Model of the Axis server (internal/server/server.go): the registry      *)
(* cache, the status table, the SSE client hub, the AUTO-mode poller and   *)
(* the SQLite-backed persistence of mode and statuses.                     *)
(*                                                                         *)
(* Every HTTP handler and goroutine is a process; one step of a process is *)
(* one critical section (modeMu, registryCache.mu, clientsMu) or one call  *)
(* to an external collaborator (the workspace service, the database, the   *)
(* automation dispatcher).  Purely local computation is folded into the    *)
(* step that follows it.                                                   *)
(***************************************************************************)
EXTENDS Integers, Sequences, FiniteSets, TLC

(***************************************************************************)
(* Bounds of the model.                                                    *)
(***************************************************************************)
NumHandlers == 2
MaxClients == 2
MaxTime == 7
MaxPolls == 11
Backlog == 8
NumEditors == 1
NumReaders == 1

(***************************************************************************)
(* Program constants.  Time is counted in minutes.                         *)
(***************************************************************************)
cacheTTL == 5
autoRefreshTicks == 60
chanCap == 10

allowedStatuses == {"Pending", "Execute", "Active", "Blocked", "Review", "Complete", "Error"}

(***************************************************************************)
(* Processes: request handlers, the poller goroutine, and for every SSE    *)
(* connection the goroutine that sends the initial registry snapshot, and  *)
(* for every handler the goroutine it may spawn (refreshAndBroadcast).     *)
(***************************************************************************)
Handlers == 1 .. NumHandlers
Chans == 1 .. MaxClients
Poller == 0
Sender(c) == 0 - c
Async(p) == 100 + p
Senders == {Sender(c) : c \in Chans}
Asyncs == {Async(p) : p \in Handlers}
Procs == Handlers \cup {Poller} \cup Senders \cup Asyncs

(***************************************************************************)
(* Registry items as the workspace service produces them.                  *)
(***************************************************************************)
RegistryItem(id, type, title, snippet) ==
    [id |-> id, type |-> type, title |-> title, snippet |-> snippet, status |-> ""]

itemA == RegistryItem("a", "keep", "A", "Google Keep Note")
itemB == RegistryItem("b", "keep", "", "Google Keep Note")
itemD == RegistryItem("d", "doc", "D", "Google Doc")

\* The lists ListRegistryItems may return (the upstream content is not under
\* the server's control, so every call may return any of them, or fail).
ProviderLists == {<<>>, <<itemA>>, <<itemA, itemB, itemD>>}

\* Query parameters the requests are drawn from.
IdInputs == {"", "a", "b"}
ContentIdInputs == {"", "  ", "a", " b "}
StatusInputs == {"", "Invalid", "Complete", "Execute"}
ModeInputs == {"", "AUTO", "MANUAL", "INVALID"}
TaskInputs == {"", "  ", " run "}
RefreshInputs == {"", "1", " TRUE ", "no"}

VARIABLES
    mode,        \* Server.mode
    statuses,    \* Server.statuses: id -> status
    cacheItems,  \* Server.registryCache.items
    expiresAt,   \* Server.registryCache.expiresAt
    clients,     \* Server.clients: the registered channels
    queue,       \* the buffered content of every channel
    conn,        \* state of every SSE connection: "free", "open", "unregistered", "closed"
    db,          \* the durable store: [mode, statuses]
    disk,        \* the legacy state file and its backup
    logged,      \* the operations of the latest start that returned an error
    cycled,      \* nextStatus applied again and again: the statuses and the directions
    now,         \* the wall clock
    remaining,   \* runPoller's countdown
    polls,       \* how often the poller's ticker has fired
    wsDeleted,   \* the delete calls the workspace service has received
    wsListed,    \* the list the workspace service returned to the latest listing
    proc         \* per process: program counter, return stack and locals

vars == <<mode, statuses, cacheItems, expiresAt, clients, queue, conn, db, disk, logged, cycled, now,
          remaining, polls, wsDeleted, wsListed, proc>>

(***************************************************************************)
(* Maps (Go map[string]string) as functions with a finite domain.          *)
(***************************************************************************)
EmptyMap == [k \in {} |-> ""]

Put(m, k, v) == [x \in DOMAIN m \cup {k} |-> IF x = k THEN v ELSE m[x]]

Remove(m, ks) == [x \in DOMAIN m \ ks |-> m[x]]

Range(s) == {s[i] : i \in 1 .. Len(s)}

(***************************************************************************)
(* Process records.                                                        *)
(***************************************************************************)
NoReq == [kind |-> "none", id |-> "", arg |-> ""]

NoSnap == [mode |-> "", statuses |-> EmptyMap]

\* History of a request, kept with its response: updated says that the
\* in-memory table has been written; seen and wrote record, for the key the
\* request is about (the id of a status edit, the mode of a mode change), what
\* triggerStateSnapshot copied ("-" when the key was absent) and what it then
\* wrote to the database. For the poller, streak counts the ticks sampled as
\* AUTO since the counter was last set to autoRefreshTicks. In the lock-level
\* view of a process, path is the sequence of lock operations and outside
\* calls it has still to run and held the set of locks it holds. launched
\* lists the tasks the request has handed to the executor, body is the mode
\* a mode request has put in its response, failed the key the request is
\* about ("mode" or the id) when the write of that key has returned an error.
IdleProc ==
    [pc |-> "idle", ret |-> <<>>, req |-> NoReq, resp |-> 0, final |-> 0,
     fetched |-> <<>>, pend |-> <<>>, needs |-> FALSE, removed |-> {},
     snap |-> NoSnap, todo |-> {}, items |-> <<>>, title |-> "",
     updated |-> FALSE, seen |-> "", wrote |-> "", streak |-> 0,
     path |-> <<>>, held |-> {}, launched |-> <<>>, body |-> "",
     failed |-> {}]

\* The process has run to its end: a handler has written its response.
Finished(r, code) ==
    [IdleProc EXCEPT !.pc = "done", !.resp = code, !.req = r.req,
                     !.updated = r.updated, !.seen = r.seen, !.wrote = r.wrote,
                     !.launched = r.launched, !.body = r.body,
                     !.failed = r.failed]

\* Return from the current function to the continuation on top of the stack;
\* "end" is the end of the handler (or goroutine), "wait" the poller's loop.
Return(r) ==
    IF r.ret = <<>> \/ Head(r.ret) = "end"
    THEN Finished(r, r.final)
    ELSE [r EXCEPT !.pc = Head(r.ret), !.ret = Tail(r.ret)]

\* Call target, continuing at the labels of conts (outermost last) after it.
Call(r, target, conts) == [r EXCEPT !.pc = target, !.ret = conts \o r.ret]

(***************************************************************************)
(* The durable store (database.DB): one mode, one status per id.           *)
(***************************************************************************)
SetMode(d, m) == [d EXCEPT !.mode = m]

SetStatus(d, id, status) == [d EXCEPT !.statuses = Put(d.statuses, id, status)]

GetMode(d) == d.mode

GetStatuses(d) == d.statuses

(***************************************************************************)
(* The client hub: every broadcast* function sends without blocking to     *)
(* every registered channel; a channel whose buffer is full is skipped.    *)
(***************************************************************************)
SSEMessage(event, data) == [event |-> event, data |-> data]

\* Send without the default branch of the select: every registered channel
\* gets the message, whatever its buffer holds.
SendUnbounded(q, cs, msg) ==
    [c \in Chans |-> IF c \in cs THEN Append(q[c], msg) ELSE q[c]]

Send(q, cs, msg) ==
    [c \in Chans |-> IF c \in cs /\ Len(q[c]) < chanCap THEN Append(q[c], msg) ELSE q[c]]

TickMsg(n) == SSEMessage("tick", [seconds_remaining |-> n])

StatusMsg(id, status, title) == SSEMessage("status", [id |-> id, status |-> status, title |-> title])

RegistryMsg(items) == SSEMessage("", [items |-> items])

AutomationMsg(state, task, errMsg) ==
    SSEMessage("automation",
               IF errMsg # "" THEN [state |-> state, task |-> task, error |-> errMsg]
               ELSE [state |-> state, task |-> task])

(***************************************************************************)
(* Pure helpers of server.go.                                              *)
(***************************************************************************)
cloneItems(items) == items

cachedItemsFresh == [items |-> cloneItems(cacheItems), fresh |-> now < expiresAt]

enrichItems(items) ==
    [i \in 1 .. Len(items) |->
        IF items[i].id \in DOMAIN statuses
        THEN [items[i] EXCEPT !.status = statuses[items[i].id]]
        ELSE IF items[i].type = "keep"
             THEN [items[i] EXCEPT !.status = "Pending"]
             ELSE items[i]]

RECURSIVE getItemTitleFrom(_, _)
getItemTitleFrom(items, id) ==
    IF items = <<>> THEN ""
    ELSE IF Head(items).id = id THEN Head(items).title
    ELSE getItemTitleFrom(Tail(items), id)

getItemTitle(id) == getItemTitleFrom(cacheItems, id)

isManualMode == mode = "MANUAL"

\* backfillKeepStatuses: the keep items without a status, in list order.
RECURSIVE NewKeepItems(_, _)
NewKeepItems(items, known) ==
    IF items = <<>> THEN <<>>
    ELSE IF Head(items).type = "keep" /\ Head(items).id \notin known
         THEN <<Head(items)>> \o NewKeepItems(Tail(items), known \cup {Head(items).id})
         ELSE NewKeepItems(Tail(items), known)

Backfilled(m, items) ==
    [x \in DOMAIN m \cup {it.id : it \in Range(NewKeepItems(items, DOMAIN m))} |->
        IF x \in DOMAIN m THEN m[x] ELSE "Pending"]

\* cleanupStaleStatuses: only the ids of the keep items of the list stay.
KeepIDs(items) == {it.id : it \in {x \in Range(items) : x.type = "keep"}}

Cleaned(m, items) == Remove(m, DOMAIN m \ KeepIDs(items))

(***************************************************************************)
(* The status cycling of the dashboard's hook (useRegistry.js).            *)
(***************************************************************************)
\* nextStatus has not been applied.
NoCycle == [trail |-> <<>>, directions |-> <<>>]

STATUS_CYCLE == <<"Pending", "Execute", "Active", "Blocked", "Review", "Complete", "Error">>

\* Array.prototype.indexOf: the 0-based position, -1 for an absent value.
indexOf(arr, x) ==
    IF \E i \in 1 .. Len(arr) : arr[i] = x
    THEN (CHOOSE i \in 1 .. Len(arr) : arr[i] = x /\ \A j \in 1 .. i - 1 : arr[j] # x) - 1
    ELSE 0 - 1

\* nextStatus over the two statuses the dashboard once cycled through.
nextStatusTwoStates(current, direction) ==
    LET cycle == <<"Pending", "Execute">>
        idx == indexOf(cycle, current)
        safeIdx == IF idx = 0 - 1 THEN 0 ELSE idx
    IN  IF direction = "forward"
        THEN cycle[((safeIdx + 1) % Len(cycle)) + 1]
        ELSE cycle[((safeIdx - 1 + Len(cycle)) % Len(cycle)) + 1]

\* nextStatus(current, direction): the neighbour of current in STATUS_CYCLE,
\* an unknown status counting as the first.
nextStatus(current, direction) ==
    LET idx == indexOf(STATUS_CYCLE, current)
        safeIdx == IF idx = 0 - 1 THEN 0 ELSE idx
    IN  IF direction = "forward"
        THEN STATUS_CYCLE[((safeIdx + 1) % Len(STATUS_CYCLE)) + 1]
        ELSE STATUS_CYCLE[((safeIdx - 1 + Len(STATUS_CYCLE)) % Len(STATUS_CYCLE)) + 1]

(***************************************************************************)
(* The legacy state file (stateFileName) and its backup. A file is a       *)
(* record: whether it is present, whether json.Unmarshal accepts it, and   *)
(* the persistentState it holds.                                           *)
(***************************************************************************)
NoFile == [present |-> FALSE, parses |-> FALSE, mode |-> "", statuses |-> EmptyMap]

NoLegacy == [legacy |-> NoFile, backup |-> NoFile]

\* The status migrateFromJSON stores for a status of the legacy file.
migrateStatus(status) ==
    LET s1 == IF status = "Keep" \/ status = "Delete" THEN "Pending" ELSE status
    IN  IF s1 \notin allowedStatuses THEN "Pending" ELSE s1

\* An operation of the start that returned an error (and was logged).
Fail(op, key) == [op |-> op, key |-> key]

\* The operations of a start that can return an error: reading, renaming,
\* and the calls of the database.
StartOps ==
    {Fail("ReadFile", ""), Fail("SetMode", ""), Fail("Rename", ""),
     Fail("GetMode", ""), Fail("GetStatuses", "")}
       \cup {Fail("SetStatus", id) : id \in {"a", "x"}}

\* The loop of migrateFromJSON over ps.Statuses: one SetStatus per id; a
\* SetStatus that returns an error (F) leaves the database as it was.
RECURSIVE migrateStatuses(_, _, _, _)
migrateStatuses(d, m, ids, F) ==
    IF ids = {} THEN d
    ELSE LET id == CHOOSE x \in ids : TRUE
             d1 == IF Fail("SetStatus", id) \in F THEN d
                   ELSE SetStatus(d, id, migrateStatus(m[id]))
         IN  migrateStatuses(d1, m, ids \ {id}, F)

\* migrateFromJSON without the return on a file that json.Unmarshal refuses.
migrateFromJSONAnyFile(d, k, F) ==
    LET ps == k.legacy
        d1 == IF ps.mode # "" /\ Fail("SetMode", "") \notin F THEN SetMode(d, ps.mode) ELSE d
        d2 == migrateStatuses(d1, ps.statuses, DOMAIN ps.statuses, F)
        failed == (IF ps.mode # "" THEN {Fail("SetMode", "")} ELSE {})
                     \cup {Fail("SetStatus", id) : id \in DOMAIN ps.statuses}
                     \cup {Fail("Rename", "")}
    IN  IF Fail("ReadFile", "") \in F
        THEN [db |-> d, disk |-> k, logged |-> {Fail("ReadFile", "")}]
        ELSE [db     |-> d2,
              disk   |-> IF Fail("Rename", "") \notin F
                         THEN [legacy |-> NoFile, backup |-> ps] ELSE k,
              logged |-> F \cap failed]

\* migrateFromJSON storing the statuses of the legacy file as they are.
migrateFromJSONAsIs(d, k, F) ==
    LET ps == k.legacy
        d1 == IF ps.mode # "" /\ Fail("SetMode", "") \notin F THEN SetMode(d, ps.mode) ELSE d
        d2 == [d1 EXCEPT !.statuses =
                  [x \in DOMAIN d1.statuses
                             \cup {y \in DOMAIN ps.statuses : Fail("SetStatus", y) \notin F} |->
                      IF x \in DOMAIN ps.statuses /\ Fail("SetStatus", x) \notin F
                      THEN ps.statuses[x] ELSE d1.statuses[x]]]
        failed == (IF ps.mode # "" THEN {Fail("SetMode", "")} ELSE {})
                     \cup {Fail("SetStatus", id) : id \in DOMAIN ps.statuses}
                     \cup {Fail("Rename", "")}
    IN  IF Fail("ReadFile", "") \in F
        THEN [db |-> d, disk |-> k, logged |-> {Fail("ReadFile", "")}]
        ELSE IF ~ps.parses
        THEN [db |-> d, disk |-> k, logged |-> {Fail("Unmarshal", "")}]
        ELSE [db     |-> d2,
              disk   |-> IF Fail("Rename", "") \notin F
                         THEN [legacy |-> NoFile, backup |-> ps] ELSE k,
              logged |-> F \cap failed]

\* migrateFromJSON on database d and files k when the operations of F return
\* an error: a file that cannot be read or does not parse changes nothing;
\* otherwise a non-empty mode and every status are stored, a failed write
\* being logged and passed over, and the file is renamed to its backup name;
\* when the rename fails the file stays where it is.
migrateFromJSON(d, k, F) ==
    LET ps == k.legacy
        d1 == IF ps.mode # "" /\ Fail("SetMode", "") \notin F THEN SetMode(d, ps.mode) ELSE d
        d2 == migrateStatuses(d1, ps.statuses, DOMAIN ps.statuses, F)
        failed == (IF ps.mode # "" THEN {Fail("SetMode", "")} ELSE {})
                     \cup {Fail("SetStatus", id) : id \in DOMAIN ps.statuses}
                     \cup {Fail("Rename", "")}
    IN  IF Fail("ReadFile", "") \in F
        THEN [db |-> d, disk |-> k, logged |-> {Fail("ReadFile", "")}]
        ELSE IF ~ps.parses
        THEN [db |-> d, disk |-> k, logged |-> {Fail("Unmarshal", "")}]
        ELSE [db     |-> d2,
              disk   |-> IF Fail("Rename", "") \notin F
                         THEN [legacy |-> NoFile, backup |-> ps] ELSE k,
              logged |-> F \cap failed]

\* loadState when the operations of F return an error: migrate if the legacy
\* file is there, then restore mode and statuses from the database; when
\* GetMode or GetStatuses fails the value NewServer has set stays.
loadState(F) ==
    LET m == IF disk.legacy.present THEN migrateFromJSON(db, disk, F)
             ELSE [db |-> db, disk |-> disk, logged |-> {}]
    IN  [mode     |-> IF Fail("GetMode", "") \in F THEN "AUTO" ELSE GetMode(m.db),
         statuses |-> IF Fail("GetStatuses", "") \in F THEN EmptyMap ELSE GetStatuses(m.db),
         db       |-> m.db,
         disk     |-> m.disk,
         logged   |-> m.logged \cup (F \cap {Fail("GetMode", ""), Fail("GetStatuses", "")})]

(***************************************************************************)
(* Initial state: a new server on an empty database.                       *)
(***************************************************************************)
Init ==
    /\ db = [mode |-> "AUTO", statuses |-> EmptyMap]
    /\ disk = NoLegacy
    /\ logged = {}
    /\ cycled = NoCycle
    /\ mode = "AUTO"
    /\ statuses = EmptyMap
    /\ cacheItems = <<>>
    /\ expiresAt = 0
    /\ clients = {}
    /\ queue = [c \in Chans |-> <<>>]
    /\ conn = [c \in Chans |-> "free"]
    /\ now = 1
    /\ remaining = autoRefreshTicks
    /\ polls = 0
    /\ wsDeleted = {}
    /\ wsListed = cacheItems
    /\ proc = [p \in Procs |-> IF p = Poller THEN [IdleProc EXCEPT !.pc = "wait"] ELSE IdleProc]

(***************************************************************************)
(* refreshRegistryCache.                                                   *)
(***************************************************************************)
\* refreshListFailed storing the (empty) result of the failed call.
refreshListFailedStores(p) ==
    /\ proc[p].pc = "rf_list"
    /\ cacheItems' = <<>>
    /\ proc' = [proc EXCEPT ![p] = Return(@)]
    /\ UNCHANGED <<mode, statuses, expiresAt, clients, queue, conn, db, disk, logged, cycled, now, remaining, polls, wsDeleted, wsListed>>

\* refreshListFailed returning the error to a caller that gives up: the
\* step that was to follow the refresh is skipped.
refreshListFailedSkipsCaller(p) ==
    /\ proc[p].pc = "rf_list"
    /\ proc' = [proc EXCEPT ![p] = Return([@ EXCEPT !.ret = IF @ = <<>> THEN @ ELSE Tail(@)])]
    /\ UNCHANGED <<mode, statuses, cacheItems, expiresAt, clients, queue, conn, db, disk, logged, cycled, now, remaining, polls, wsDeleted, wsListed>>

\* refreshListFailed ending the goroutine that called the refresh.
refreshListFailedExits(p) ==
    /\ proc[p].pc = "rf_list"
    /\ proc' = [proc EXCEPT ![p] = Finished(@, 500)]
    /\ UNCHANGED <<mode, statuses, cacheItems, expiresAt, clients, queue, conn, db, disk, logged, cycled, now, remaining, polls, wsDeleted, wsListed>>

\* s.ws.ListRegistryItems() fails: log and return.
refreshListFailed(p) ==
    /\ proc[p].pc = "rf_list"
    /\ proc' = [proc EXCEPT ![p] = Return(@)]
    /\ UNCHANGED <<mode, statuses, cacheItems, expiresAt, clients, queue, conn, db, disk, logged, cycled, now, remaining, polls, wsDeleted, wsListed>>

\* s.ws.ListRegistryItems() returns a list.
refreshList(p) ==
    /\ proc[p].pc = "rf_list"
    /\ \E items \in ProviderLists :
          /\ wsListed' = items
          /\ proc' = [proc EXCEPT ![p] = [@ EXCEPT !.pc = "rf_backfill", !.fetched = items]]
    /\ UNCHANGED <<mode, statuses, cacheItems, expiresAt, clients, queue, conn, db, disk, logged, cycled, now, remaining, polls, wsDeleted>>

\* backfillKeepStatuses, the section under modeMu.
backfillKeepStatuses(p) ==
    /\ proc[p].pc = "rf_backfill"
    /\ LET newItems == NewKeepItems(proc[p].fetched, DOMAIN statuses) IN
          /\ statuses' = Backfilled(statuses, proc[p].fetched)
          /\ proc' = [proc EXCEPT ![p] =
                [@ EXCEPT !.pend = newItems,
                          !.needs = newItems # <<>>,
                          !.pc = IF newItems # <<>> THEN "rf_bcast" ELSE "rf_cleanup"]]
    /\ UNCHANGED <<mode, cacheItems, expiresAt, clients, queue, conn, db, disk, logged, cycled, now, remaining, polls, wsDeleted, wsListed>>

\* backfillKeepStatuses, the broadcast of one newly initialised note.
backfillBroadcast(p) ==
    /\ proc[p].pc = "rf_bcast"
    /\ LET item == Head(proc[p].pend) IN
          queue' = Send(queue, clients, StatusMsg(item.id, "Pending", item.title))
    /\ proc' = [proc EXCEPT ![p] =
          [@ EXCEPT !.pend = Tail(@),
                    !.pc = IF Tail(proc[p].pend) # <<>> THEN "rf_bcast" ELSE "rf_cleanup"]]
    /\ UNCHANGED <<mode, statuses, cacheItems, expiresAt, clients, conn, db, disk, logged, cycled, now, remaining, polls, wsDeleted, wsListed>>

\* cleanupStaleStatuses.
cleanupStaleStatuses(p) ==
    /\ proc[p].pc = "rf_cleanup"
    /\ statuses' = Cleaned(statuses, proc[p].fetched)
    /\ proc' = [proc EXCEPT ![p] =
          [@ EXCEPT !.needs = @ \/ (DOMAIN statuses \ KeepIDs(proc[p].fetched) # {}),
                    !.removed = DOMAIN statuses \ KeepIDs(proc[p].fetched),
                    !.pc = "rf_swap"]]
    /\ UNCHANGED <<mode, cacheItems, expiresAt, clients, queue, conn, db, disk, logged, cycled, now, remaining, polls, wsDeleted, wsListed>>

\* refreshSwap with the expiry set to the TTL itself, not to now plus the TTL.
refreshSwapFixedExpiry(p) ==
    /\ proc[p].pc = "rf_swap"
    /\ cacheItems' = cloneItems(proc[p].fetched)
    /\ expiresAt' = cacheTTL
    /\ proc' = [proc EXCEPT ![p] =
          IF proc[p].needs
          THEN [@ EXCEPT !.pc = "ss_copy", !.fetched = <<>>, !.needs = FALSE]
          ELSE Return([@ EXCEPT !.fetched = <<>>, !.needs = FALSE, !.removed = {}])]
    /\ UNCHANGED <<mode, statuses, clients, queue, conn, db, disk, logged, cycled, now, remaining, polls, wsDeleted, wsListed>>

\* The swap of the cache under registryCache.mu, then the call of
\* triggerStateSnapshot when a status was added or removed.
refreshSwap(p) ==
    /\ proc[p].pc = "rf_swap"
    /\ cacheItems' = cloneItems(proc[p].fetched)
    /\ expiresAt' = now + cacheTTL
    /\ proc' = [proc EXCEPT ![p] =
          IF proc[p].needs
          THEN [@ EXCEPT !.pc = "ss_copy", !.fetched = <<>>, !.needs = FALSE]
          ELSE Return([@ EXCEPT !.fetched = <<>>, !.needs = FALSE, !.removed = {}])]
    /\ UNCHANGED <<mode, statuses, clients, queue, conn, db, disk, logged, cycled, now, remaining, polls, wsDeleted, wsListed>>

(***************************************************************************)
(* triggerStateSnapshot.                                                   *)
(***************************************************************************)
\* What the copy holds for the key the request is about.
Seen(req, m, st, old) ==
    IF req.kind = "status" THEN (IF req.id \in DOMAIN st THEN st[req.id] ELSE "-")
    ELSE IF req.kind = "mode" THEN m
    ELSE old

\* The copy of mode and statuses under modeMu.RLock.
snapshotCopy(p) ==
    /\ proc[p].pc = "ss_copy"
    /\ proc' = [proc EXCEPT ![p] =
          [@ EXCEPT !.snap = [mode |-> mode, statuses |-> statuses],
                    !.seen = Seen(proc[p].req, mode, statuses, @),
                    !.pc = "ss_mode"]]
    /\ UNCHANGED <<mode, statuses, cacheItems, expiresAt, clients, queue, conn, db, disk, logged, cycled, now, remaining, polls, wsDeleted, wsListed>>

\* After the last write of the flush the function returns.
AfterWrite(r, left) ==
    IF left = {}
    THEN Return([r EXCEPT !.snap = NoSnap, !.todo = {}, !.removed = {}])
    ELSE [r EXCEPT !.pc = "ss_status", !.todo = left]

\* s.db.SetMode(mode).
snapshotSetMode(p) ==
    /\ proc[p].pc = "ss_mode"
    /\ db' = SetMode(db, proc[p].snap.mode)
    /\ proc' = [proc EXCEPT ![p] =
          AfterWrite([@ EXCEPT !.wrote = IF proc[p].req.kind = "mode" THEN proc[p].snap.mode ELSE @],
                     DOMAIN proc[p].snap.statuses)]
    /\ UNCHANGED <<mode, statuses, cacheItems, expiresAt, clients, queue, conn, disk, logged, cycled, now, remaining, polls, wsDeleted, wsListed>>

\* snapshotSetStatus writing only the entries that still are what the table
\* holds (an entry changed since the copy is skipped).
snapshotSetStatusIfCurrent(p) ==
    /\ proc[p].pc = "ss_status"
    /\ \E id \in proc[p].todo :
          LET same == id \in DOMAIN statuses /\ statuses[id] = proc[p].snap.statuses[id] IN
          /\ db' = IF same THEN SetStatus(db, id, proc[p].snap.statuses[id]) ELSE db
          /\ proc' = [proc EXCEPT ![p] =
                AfterWrite([@ EXCEPT !.wrote = IF same /\ proc[p].req.kind = "status" /\ proc[p].req.id = id
                                               THEN proc[p].snap.statuses[id] ELSE @],
                           proc[p].todo \ {id})]
    /\ UNCHANGED <<mode, statuses, cacheItems, expiresAt, clients, queue, conn, disk, logged, cycled, now, remaining, polls, wsDeleted, wsListed>>

\* s.db.SetStatus(id, status) for one entry of the copy (map order).
snapshotSetStatus(p) ==
    /\ proc[p].pc = "ss_status"
    /\ \E id \in proc[p].todo :
          /\ db' = SetStatus(db, id, proc[p].snap.statuses[id])
          /\ proc' = [proc EXCEPT ![p] =
                AfterWrite([@ EXCEPT !.wrote = IF proc[p].req.kind = "status" /\ proc[p].req.id = id
                                               THEN proc[p].snap.statuses[id] ELSE @],
                           proc[p].todo \ {id})]
    /\ UNCHANGED <<mode, statuses, cacheItems, expiresAt, clients, queue, conn, disk, logged, cycled, now, remaining, polls, wsDeleted, wsListed>>

\* s.db.SetMode(mode) returns an error: it is logged and the flush goes on.
snapshotSetModeFailed(p) ==
    /\ proc[p].pc = "ss_mode"
    /\ proc' = [proc EXCEPT ![p] =
          AfterWrite([@ EXCEPT !.failed = IF proc[p].req.kind = "mode" THEN @ \cup {"mode"} ELSE @],
                     DOMAIN proc[p].snap.statuses)]
    /\ UNCHANGED <<mode, statuses, cacheItems, expiresAt, clients, queue, conn, db, disk, logged, cycled, now, remaining, polls, wsDeleted, wsListed>>

\* snapshotSetStatusFailed with the request ending in an error response.
snapshotSetStatusFailedAborts(p) ==
    /\ proc[p].pc = "ss_status"
    /\ \E id \in proc[p].todo :
          proc' = [proc EXCEPT ![p] =
                Finished([@ EXCEPT !.failed = IF proc[p].req.kind = "status" /\ proc[p].req.id = id
                                                THEN @ \cup {id} ELSE @], 500)]
    /\ UNCHANGED <<mode, statuses, cacheItems, expiresAt, clients, queue, conn, db, disk, logged, cycled, now, remaining, polls, wsDeleted, wsListed>>

\* s.db.SetStatus(id, status) returns an error: it is logged and the loop
\* goes on with the next entry.
snapshotSetStatusFailed(p) ==
    /\ proc[p].pc = "ss_status"
    /\ \E id \in proc[p].todo :
          proc' = [proc EXCEPT ![p] =
                AfterWrite([@ EXCEPT !.failed = IF proc[p].req.kind = "status" /\ proc[p].req.id = id
                                                THEN @ \cup {id} ELSE @],
                           proc[p].todo \ {id})]
    /\ UNCHANGED <<mode, statuses, cacheItems, expiresAt, clients, queue, conn, db, disk, logged, cycled, now, remaining, polls, wsDeleted, wsListed>>

(***************************************************************************)
(* broadcastRegistry.                                                      *)
(***************************************************************************)
\* items, _ := s.cachedItemsFresh(); an empty cache is refreshed first.
broadcastRegistryRead(p) ==
    /\ proc[p].pc = "br_read"
    /\ proc' = [proc EXCEPT ![p] =
          IF Len(cachedItemsFresh.items) = 0
          THEN Call(@, "rf_list", <<"br_read2">>)
          ELSE [@ EXCEPT !.items = cachedItemsFresh.items, !.pc = "br_enrich"]]
    /\ UNCHANGED <<mode, statuses, cacheItems, expiresAt, clients, queue, conn, db, disk, logged, cycled, now, remaining, polls, wsDeleted, wsListed>>

\* items, _ = s.cachedItemsFresh() after the refresh.
broadcastRegistryReread(p) ==
    /\ proc[p].pc = "br_read2"
    /\ proc' = [proc EXCEPT ![p] = [@ EXCEPT !.items = cachedItemsFresh.items, !.pc = "br_enrich"]]
    /\ UNCHANGED <<mode, statuses, cacheItems, expiresAt, clients, queue, conn, db, disk, logged, cycled, now, remaining, polls, wsDeleted, wsListed>>

\* s.enrichItems(items) under modeMu.RLock.
broadcastRegistryEnrich(p) ==
    /\ proc[p].pc = "br_enrich"
    /\ proc' = [proc EXCEPT ![p] = [@ EXCEPT !.items = enrichItems(@), !.pc = "br_send"]]
    /\ UNCHANGED <<mode, statuses, cacheItems, expiresAt, clients, queue, conn, db, disk, logged, cycled, now, remaining, polls, wsDeleted, wsListed>>

\* The sends under clientsMu.
broadcastRegistrySend(p) ==
    /\ proc[p].pc = "br_send"
    /\ queue' = Send(queue, clients, RegistryMsg(proc[p].items))
    /\ proc' = [proc EXCEPT ![p] = Return([@ EXCEPT !.items = <<>>])]
    /\ UNCHANGED <<mode, statuses, cacheItems, expiresAt, clients, conn, db, disk, logged, cycled, now, remaining, polls, wsDeleted, wsListed>>


(***************************************************************************)
(* handleStatus.                                                           *)
(***************************************************************************)
\* handleStatus without the check of the status against allowedStatuses.
handleStatusUnchecked(p, id, status) ==
    /\ proc[p].pc = "idle"
    /\ IF id = "" \/ status = ""
       THEN /\ proc' = [proc EXCEPT ![p] =
                  Finished([@ EXCEPT !.req = [kind |-> "status", id |-> id, arg |-> status]], 400)]
            /\ UNCHANGED statuses
       ELSE /\ statuses' = Put(statuses, id, status)
            /\ proc' = [proc EXCEPT ![p] =
                  [@ EXCEPT !.pc = "hs_title", !.updated = TRUE,
                            !.req = [kind |-> "status", id |-> id, arg |-> status]]]
    /\ UNCHANGED <<mode, cacheItems, expiresAt, clients, queue, conn, db, disk, logged, cycled, now, remaining, polls, wsDeleted, wsListed>>

\* handleStatus storing the record in a table of its own.
handleStatusFreshTable(p, id, status) ==
    /\ proc[p].pc = "idle"
    /\ IF id = "" \/ status = "" \/ status \notin allowedStatuses
       THEN /\ proc' = [proc EXCEPT ![p] =
                  Finished([@ EXCEPT !.req = [kind |-> "status", id |-> id, arg |-> status]], 400)]
            /\ UNCHANGED statuses
       ELSE /\ statuses' = Put(EmptyMap, id, status)
            /\ proc' = [proc EXCEPT ![p] =
                  [@ EXCEPT !.pc = "hs_title", !.updated = TRUE,
                            !.req = [kind |-> "status", id |-> id, arg |-> status]]]
    /\ UNCHANGED <<mode, cacheItems, expiresAt, clients, queue, conn, db, disk, logged, cycled, now, remaining, polls, wsDeleted, wsListed>>

\* The request arrives: validation, then s.statuses[id] = status under modeMu.
handleStatus(p, id, status) ==
    /\ proc[p].pc = "idle"
    /\ IF id = "" \/ status = "" \/ status \notin allowedStatuses
       THEN /\ proc' = [proc EXCEPT ![p] =
                  Finished([@ EXCEPT !.req = [kind |-> "status", id |-> id, arg |-> status]], 400)]
            /\ UNCHANGED statuses
       ELSE /\ statuses' = Put(statuses, id, status)
            /\ proc' = [proc EXCEPT ![p] =
                  [@ EXCEPT !.pc = "hs_title", !.updated = TRUE,
                            !.req = [kind |-> "status", id |-> id, arg |-> status]]]
    /\ UNCHANGED <<mode, cacheItems, expiresAt, clients, queue, conn, db, disk, logged, cycled, now, remaining, polls, wsDeleted, wsListed>>

\* title := s.getItemTitle(id); without a title no status event is sent and
\* the handler goes on to triggerStateSnapshot and broadcastRegistry.
handleStatusTitle(p) ==
    /\ proc[p].pc = "hs_title"
    /\ proc' = [proc EXCEPT ![p] =
          IF getItemTitle(proc[p].req.id) # ""
          THEN [@ EXCEPT !.title = getItemTitle(proc[p].req.id), !.pc = "hs_bcast"]
          ELSE [Call(@, "ss_copy", <<"br_read", "end">>) EXCEPT !.final = 200]]
    /\ UNCHANGED <<mode, statuses, cacheItems, expiresAt, clients, queue, conn, db, disk, logged, cycled, now, remaining, polls, wsDeleted, wsListed>>

\* s.broadcastStatusChange(id, status, title), then on to triggerStateSnapshot
\* and broadcastRegistry.
handleStatusBroadcast(p) ==
    /\ proc[p].pc = "hs_bcast"
    /\ queue' = Send(queue, clients, StatusMsg(proc[p].req.id, proc[p].req.arg, proc[p].title))
    /\ proc' = [proc EXCEPT ![p] =
          [Call(@, "ss_copy", <<"br_read", "end">>) EXCEPT !.final = 200, !.title = ""]]
    /\ UNCHANGED <<mode, statuses, cacheItems, expiresAt, clients, conn, db, disk, logged, cycled, now, remaining, polls, wsDeleted, wsListed>>

(***************************************************************************)
(* handleMode.                                                             *)
(***************************************************************************)
\* handleMode without the check of the new mode against AUTO and MANUAL.
handleModeUnchecked(p, newMode) ==
    /\ proc[p].pc = "idle"
    /\ LET r == [proc[p] EXCEPT !.req = [kind |-> "mode", id |-> "", arg |-> newMode]] IN
          IF newMode = ""
          THEN /\ proc' = [proc EXCEPT ![p] = Finished([r EXCEPT !.body = mode], 200)]
               /\ UNCHANGED mode
          ELSE /\ mode' = newMode
               /\ proc' = [proc EXCEPT ![p] =
                     [Call(r, "ss_copy", <<"end">>) EXCEPT !.final = 200, !.updated = TRUE,
                                                         !.body = newMode]]
    /\ UNCHANGED <<statuses, cacheItems, expiresAt, clients, queue, conn, db, disk, logged, cycled, now, remaining, polls, wsDeleted, wsListed>>

\* Under modeMu: without "set" the mode is reported, an unknown mode is
\* refused, AUTO or MANUAL is stored; triggerStateSnapshot follows and the
\* new mode is the response.
handleMode(p, newMode) ==
    /\ proc[p].pc = "idle"
    /\ LET r == [proc[p] EXCEPT !.req = [kind |-> "mode", id |-> "", arg |-> newMode]] IN
          IF newMode = ""
          THEN /\ proc' = [proc EXCEPT ![p] = Finished([r EXCEPT !.body = mode], 200)]
               /\ UNCHANGED mode
          ELSE IF newMode # "AUTO" /\ newMode # "MANUAL"
          THEN /\ proc' = [proc EXCEPT ![p] = Finished(r, 400)]
               /\ UNCHANGED mode
          ELSE /\ mode' = newMode
               /\ proc' = [proc EXCEPT ![p] =
                     [Call(r, "ss_copy", <<"end">>) EXCEPT !.final = 200, !.updated = TRUE,
                                                         !.body = newMode]]
    /\ UNCHANGED <<statuses, cacheItems, expiresAt, clients, queue, conn, db, disk, logged, cycled, now, remaining, polls, wsDeleted, wsListed>>

(***************************************************************************)
(* handleDelete, handleDeleteSheet, handleDeleteDoc.                       *)
(***************************************************************************)
\* handleDelete: the id and, under modeMu.RLock, the mode are checked.
handleDelete(p, id) ==
    /\ proc[p].pc = "idle"
    /\ LET r == [proc[p] EXCEPT !.req = [kind |-> "delete", id |-> id, arg |-> mode]] IN
          proc' = [proc EXCEPT ![p] =
             IF id = "" THEN Finished(r, 400)
             ELSE IF mode # "MANUAL" THEN Finished(r, 403)
             ELSE [r EXCEPT !.pc = "hd_delete"]]
    /\ UNCHANGED <<mode, statuses, cacheItems, expiresAt, clients, queue, conn, db, disk, logged, cycled, now, remaining, polls, wsDeleted, wsListed>>

\* handleDeleteCall refreshing and broadcasting after a failed DeleteNote too.
handleDeleteCallRefreshesAnyway(p) ==
    /\ proc[p].pc = "hd_delete"
    /\ wsDeleted' = wsDeleted \cup {<<"note", proc[p].req.id>>}
    /\ \E ok \in BOOLEAN :
          proc' = [proc EXCEPT ![p] =
             [Call(@, "rf_list", <<"br_read", "end">>) EXCEPT !.final = IF ok THEN 200 ELSE 500]]
    /\ UNCHANGED <<mode, statuses, cacheItems, expiresAt, clients, queue, conn, db, disk, logged, cycled, now, remaining, polls, wsListed>>

\* s.ws.DeleteNote(ctx, id): on an error 500, else refresh and broadcast.
handleDeleteCall(p) ==
    /\ proc[p].pc = "hd_delete"
    /\ wsDeleted' = wsDeleted \cup {<<"note", proc[p].req.id>>}
    /\ \E ok \in BOOLEAN :
          proc' = [proc EXCEPT ![p] =
             IF ok THEN [Call(@, "rf_list", <<"br_read", "end">>) EXCEPT !.final = 200]
             ELSE Finished(@, 500)]
    /\ UNCHANGED <<mode, statuses, cacheItems, expiresAt, clients, queue, conn, db, disk, logged, cycled, now, remaining, polls, wsListed>>

\* handleDeleteSheet and handleDeleteDoc: the id is checked, then
\* s.ws.DeleteSheet(id) or s.ws.DeleteDoc(id) is called.
handleDeleteFile(p, kind, id) ==
    /\ proc[p].pc = "idle"
    /\ LET r == [proc[p] EXCEPT !.req = [kind |-> kind, id |-> id, arg |-> mode]] IN
          IF id = ""
          THEN /\ proc' = [proc EXCEPT ![p] = Finished(r, 400)]
               /\ UNCHANGED wsDeleted
          ELSE /\ wsDeleted' = wsDeleted \cup {<<kind, id>>}
               /\ \E ok \in BOOLEAN :
                     proc' = [proc EXCEPT ![p] =
                        IF ok THEN [r EXCEPT !.pc = "hf_mode"] ELSE Finished(r, 500)]
    /\ UNCHANGED <<mode, statuses, cacheItems, expiresAt, clients, queue, conn, db, disk, logged, cycled, now, remaining, polls, wsListed>>

handleDeleteSheet(p, id) == handleDeleteFile(p, "sheet", id)

handleDeleteDoc(p, id) == handleDeleteFile(p, "doc", id)

\* if s.isManualMode() { refresh; broadcast } else { go s.refreshAndBroadcast() }
handleDeleteFileRefresh(p) ==
    /\ proc[p].pc = "hf_mode"
    /\ proc' = IF isManualMode
               THEN [proc EXCEPT ![p] = [Call(@, "rf_list", <<"br_read", "end">>) EXCEPT !.final = 200]]
               ELSE [proc EXCEPT ![p] = Finished(@, 200),
                                 ![Async(p)] = Call(IdleProc, "rf_list", <<"br_read", "end">>)]
    /\ UNCHANGED <<mode, statuses, cacheItems, expiresAt, clients, queue, conn, db, disk, logged, cycled, now, remaining, polls, wsDeleted, wsListed>>

(***************************************************************************)
(* handleAutomationTask.                                                   *)
(***************************************************************************)
\* strings.TrimSpace on the texts the inputs are drawn from.
TrimSpace(s) ==
    CASE s = "  " -> ""
      [] s = " run " -> "run"
      [] s = " N " -> "N"
      [] s = " b " -> "b"
      [] OTHER -> s

\* handleAutomationTask without the check of the mode.
handleAutomationTaskAnyMode(p, method, decodes, task) ==
    /\ proc[p].pc = "idle"
    /\ LET r == [proc[p] EXCEPT !.req = [kind |-> "automation", id |-> "", arg |-> TrimSpace(task)]] IN
          proc' = [proc EXCEPT ![p] =
             IF method # "POST" THEN Finished(r, 405)
             ELSE IF ~decodes THEN Finished(r, 400)
             ELSE IF TrimSpace(task) = "" THEN Finished(r, 400)
             ELSE [r EXCEPT !.pc = "ha_dispatch"]]
    /\ UNCHANGED <<mode, statuses, cacheItems, expiresAt, clients, queue, conn, db, disk, logged, cycled, now, remaining, polls, wsDeleted, wsListed>>

\* The method and, under modeMu.RLock, the mode are checked; the body is
\* decoded and the task trimmed.
handleAutomationTask(p, method, decodes, task) ==
    /\ proc[p].pc = "idle"
    /\ LET r == [proc[p] EXCEPT !.req = [kind |-> "automation", id |-> "", arg |-> TrimSpace(task)]] IN
          proc' = [proc EXCEPT ![p] =
             IF method # "POST" THEN Finished(r, 405)
             ELSE IF ~isManualMode THEN Finished(r, 403)
             ELSE IF ~decodes THEN Finished(r, 400)
             ELSE IF TrimSpace(task) = "" THEN Finished(r, 400)
             ELSE [r EXCEPT !.pc = "ha_dispatch"]]
    /\ UNCHANGED <<mode, statuses, cacheItems, expiresAt, clients, queue, conn, db, disk, logged, cycled, now, remaining, polls, wsDeleted, wsListed>>

\* s.dispatch(task): the executor is invoked; the launch succeeds or fails.
handleAutomationDispatch(p) ==
    /\ proc[p].pc = "ha_dispatch"
    /\ \E ok \in BOOLEAN :
          proc' = [proc EXCEPT ![p] =
             [@ EXCEPT !.pc = "ha_bcast", !.final = IF ok THEN 202 ELSE 500,
                       !.launched = Append(@, proc[p].req.arg)]]
    /\ UNCHANGED <<mode, statuses, cacheItems, expiresAt, clients, queue, conn, db, disk, logged, cycled, now, remaining, polls, wsDeleted, wsListed>>

\* handleAutomationBroadcast that reports every launch as started.
handleAutomationBroadcastStarted(p) ==
    /\ proc[p].pc = "ha_bcast"
    /\ queue' = Send(queue, clients, AutomationMsg("started", proc[p].req.arg, ""))
    /\ proc' = [proc EXCEPT ![p] = Finished(@, proc[p].final)]
    /\ UNCHANGED <<mode, statuses, cacheItems, expiresAt, clients, conn, db, disk, logged, cycled, now, remaining, polls, wsDeleted, wsListed>>

\* s.broadcastAutomationEvent("started" or "error", task, errMsg).
handleAutomationBroadcast(p) ==
    /\ proc[p].pc = "ha_bcast"
    /\ queue' = Send(queue, clients,
                     IF proc[p].final = 202
                     THEN AutomationMsg("started", proc[p].req.arg, "")
                     ELSE AutomationMsg("error", proc[p].req.arg, "failed to launch copilot"))
    /\ proc' = [proc EXCEPT ![p] = Finished(@, proc[p].final)]
    /\ UNCHANGED <<mode, statuses, cacheItems, expiresAt, clients, conn, db, disk, logged, cycled, now, remaining, polls, wsDeleted, wsListed>>

(***************************************************************************)
(* handleNoteDetail and ensureKeepNoteCached.                              *)
(***************************************************************************)
sanitizeNoteTitle(raw) == IF TrimSpace(raw) = "" THEN "Untitled" ELSE TrimSpace(raw)

\* What s.ws.GetNote may answer for an id: an error, no note, or a note
\* (its name and title).
NoteAnswers(id) ==
    {[kind |-> "error", name |-> "", title |-> ""], [kind |-> "nil", name |-> "", title |-> ""],
     [kind |-> "note", name |-> "", title |-> ""]}
    \cup {[kind |-> "note", name |-> id, title |-> t] : t \in {"", " N "}}

\* The id is checked and s.ws.GetNote(ctx, id) is called.
handleNoteDetail(p, id) ==
    /\ proc[p].pc = "idle"
    /\ LET r == [proc[p] EXCEPT !.req = [kind |-> "detail", id |-> id, arg |-> ""]] IN
          IF id = ""
          THEN proc' = [proc EXCEPT ![p] = Finished(r, 400)]
          ELSE \E note \in NoteAnswers(id) :
                  proc' = [proc EXCEPT ![p] =
                     IF note.kind = "error" THEN Finished(r, 500)
                     ELSE IF note.kind = "nil" \/ note.name = "" THEN Finished(r, 200)
                     ELSE [r EXCEPT !.pc = "ek_default", !.req = [@ EXCEPT !.id = note.name],
                                    !.title = note.title]]
    /\ UNCHANGED <<mode, statuses, cacheItems, expiresAt, clients, queue, conn, db, disk, logged, cycled, now, remaining, polls, wsDeleted, wsListed>>

\* ensureStatusDefault(id, "Pending") under modeMu.
ensureStatusDefault(p) ==
    /\ proc[p].pc = "ek_default"
    /\ statuses' = IF proc[p].req.id \in DOMAIN statuses THEN statuses
                   ELSE Put(statuses, proc[p].req.id, "Pending")
    /\ proc' = [proc EXCEPT ![p] =
          [@ EXCEPT !.needs = proc[p].req.id \notin DOMAIN statuses,
                    !.updated = proc[p].req.id \notin DOMAIN statuses,
                    !.req = [@ EXCEPT !.arg = IF proc[p].req.id \in DOMAIN statuses
                                              THEN statuses[proc[p].req.id] ELSE "Pending"],
                    !.pc = "ek_upsert"]]
    /\ UNCHANGED <<mode, cacheItems, expiresAt, clients, queue, conn, db, disk, logged, cycled, now, remaining, polls, wsDeleted, wsListed>>

\* The cached list with the item replaced in place, or appended.
RECURSIVE Replaced(_, _)
Replaced(items, item) ==
    IF items = <<>> THEN <<>>
    ELSE IF Head(items).id = item.id THEN <<item>> \o Tail(items)
    ELSE <<Head(items)>> \o Replaced(Tail(items), item)

Upserted(items, item) ==
    IF \E i \in 1 .. Len(items) : items[i].id = item.id
    THEN Replaced(items, item)
    ELSE Append(items, item)

\* ensureKeepNoteCached, the section under registryCache.mu; then
\* triggerStateSnapshot when the status was created, and back in the handler
\* broadcastRegistry when the item was added. handleNoteDetail then writes
\* its response, handleGetRegistryContent goes on to statusForKeep.
ensureKeepNoteCached(p) ==
    /\ proc[p].pc = "ek_upsert"
    /\ LET item == [id |-> proc[p].req.id, type |-> "keep",
                    title |-> sanitizeNoteTitle(proc[p].title),
                    snippet |-> "Google Keep Note", status |-> proc[p].req.arg]
           added == ~(\E i \in 1 .. Len(cacheItems) : cacheItems[i].id = item.id)
           back == IF proc[p].req.kind = "content" THEN "sk_default" ELSE "end"
           after == IF added THEN <<"br_read", back>> ELSE <<back>>
           r == [proc[p] EXCEPT !.needs = FALSE, !.title = "", !.final = 200]
       IN /\ cacheItems' = Upserted(cacheItems, item)
          /\ expiresAt' = now + cacheTTL
          /\ proc' = [proc EXCEPT ![p] =
                IF proc[p].needs THEN Call(r, "ss_copy", after)
                ELSE IF added THEN Call(r, "br_read", <<back>>)
                ELSE Return([r EXCEPT !.ret = <<back>>])]
    /\ UNCHANGED <<mode, statuses, clients, queue, conn, db, disk, logged, cycled, now, remaining, polls, wsDeleted, wsListed>>

\* The trimmed id is checked and s.ws.GetNote(ctx, id) is called; a note
\* without a name goes by the id of the request.
handleGetRegistryContent(p, id) ==
    /\ proc[p].pc = "idle"
    /\ LET r == [proc[p] EXCEPT !.req = [kind |-> "content", id |-> TrimSpace(id), arg |-> ""]] IN
          IF TrimSpace(id) = ""
          THEN proc' = [proc EXCEPT ![p] = Finished(r, 400)]
          ELSE \E note \in NoteAnswers(TrimSpace(id)) :
                  proc' = [proc EXCEPT ![p] =
                     IF note.kind = "error" THEN Finished(r, 500)
                     ELSE IF note.kind = "nil" THEN Finished(r, 404)
                     ELSE [r EXCEPT !.pc = "ek_default",
                                    !.req = [@ EXCEPT !.id = IF note.name = "" THEN TrimSpace(id)
                                                             ELSE note.name],
                                    !.title = note.title]]
    /\ UNCHANGED <<mode, statuses, cacheItems, expiresAt, clients, queue, conn, db, disk, logged, cycled, now, remaining, polls, wsDeleted, wsListed>>

\* statusForKeep triggering the durable write whether or not it created the
\* record.
statusForKeepAlwaysWrites(p) ==
    /\ proc[p].pc = "sk_default"
    /\ LET id == proc[p].req.id
           created == id \notin DOMAIN statuses
           status == IF created THEN "Pending" ELSE statuses[id]
           r == [proc[p] EXCEPT !.body = status, !.final = 200]
       IN /\ statuses' = IF created THEN Put(statuses, id, "Pending") ELSE statuses
          /\ proc' = [proc EXCEPT ![p] = Call(r, "ss_copy", <<"end">>)]
    /\ UNCHANGED <<mode, cacheItems, expiresAt, clients, queue, conn, db, disk, logged, cycled, now, remaining, polls, wsDeleted, wsListed>>

\* statusForKeep: ensureStatusDefault(id, "Pending") under modeMu, then
\* triggerStateSnapshot if the record was created; the status goes into the
\* response.
statusForKeep(p) ==
    /\ proc[p].pc = "sk_default"
    /\ LET id == proc[p].req.id
           created == id \notin DOMAIN statuses
           status == IF created THEN "Pending" ELSE statuses[id]
           r == [proc[p] EXCEPT !.body = status, !.final = 200]
       IN /\ statuses' = IF created THEN Put(statuses, id, "Pending") ELSE statuses
          /\ proc' = [proc EXCEPT ![p] =
                IF created THEN Call(r, "ss_copy", <<"end">>) ELSE Finished(r, 200)]
    /\ UNCHANGED <<mode, cacheItems, expiresAt, clients, queue, conn, db, disk, logged, cycled, now, remaining, polls, wsDeleted, wsListed>>

(***************************************************************************)
(* handleRegistry.                                                         *)
(***************************************************************************)
\* strings.ToLower(strings.TrimSpace(v)) on the texts the inputs are drawn from.
ToLowerTrim(v) ==
    CASE v = " TRUE " -> "true"
      [] OTHER -> v

truthyParam(v) == ToLowerTrim(v) \in {"1", "true", "t", "yes", "y", "force", "refresh"}

\* In MANUAL a truthy refresh parameter forces a refresh and a broadcast
\* before the read.
handleRegistry(p, refresh) ==
    /\ proc[p].pc = "idle"
    /\ LET forceRefresh == isManualMode /\ truthyParam(refresh)
           r == [proc[p] EXCEPT !.final = 200,
                                !.req = [kind |-> "registry", id |-> "",
                                         arg |-> IF forceRefresh THEN "force" ELSE ""]]
       IN proc' = [proc EXCEPT ![p] =
             IF forceRefresh THEN Call(r, "rf_list", <<"br_read", "hr_read", "end">>)
             ELSE Call(r, "hr_read", <<"end">>)]
    /\ UNCHANGED <<mode, statuses, cacheItems, expiresAt, clients, queue, conn, db, disk, logged, cycled, now, remaining, polls, wsDeleted, wsListed>>

\* items, fresh := s.cachedItemsFresh(); a stale or empty cache is refreshed.
handleRegistryRead(p) ==
    /\ proc[p].pc = "hr_read"
    /\ proc' = [proc EXCEPT ![p] =
          IF ~cachedItemsFresh.fresh \/ Len(cachedItemsFresh.items) = 0
          THEN Call(@, "rf_list", <<"hr_read2">>)
          ELSE [@ EXCEPT !.items = cachedItemsFresh.items, !.pc = "hr_enrich"]]
    /\ UNCHANGED <<mode, statuses, cacheItems, expiresAt, clients, queue, conn, db, disk, logged, cycled, now, remaining, polls, wsDeleted, wsListed>>

\* items, _ = s.cachedItemsFresh() after the refresh.
handleRegistryReread(p) ==
    /\ proc[p].pc = "hr_read2"
    /\ proc' = [proc EXCEPT ![p] = [@ EXCEPT !.items = cachedItemsFresh.items, !.pc = "hr_enrich"]]
    /\ UNCHANGED <<mode, statuses, cacheItems, expiresAt, clients, queue, conn, db, disk, logged, cycled, now, remaining, polls, wsDeleted, wsListed>>

\* enriched := s.enrichItems(items) under modeMu.RLock.
handleRegistryEnrich(p) ==
    /\ proc[p].pc = "hr_enrich"
    /\ proc' = [proc EXCEPT ![p] = [@ EXCEPT !.items = enrichItems(@), !.pc = "hr_write"]]
    /\ UNCHANGED <<mode, statuses, cacheItems, expiresAt, clients, queue, conn, db, disk, logged, cycled, now, remaining, polls, wsDeleted, wsListed>>

\* json.NewEncoder(w).Encode(enriched): the decorated list is the body of
\* the response, whose status is 200.
handleRegistryWrite(p) ==
    /\ proc[p].pc = "hr_write"
    /\ proc' = [proc EXCEPT ![p] = Return([@ EXCEPT !.items = <<>>])]
    /\ UNCHANGED <<mode, statuses, cacheItems, expiresAt, clients, queue, conn, db, disk, logged, cycled, now, remaining, polls, wsDeleted, wsListed>>

(***************************************************************************)
(* handleEvents and sendInitialRegistrySnapshot.                           *)
(***************************************************************************)
\* A panic that nothing recovers ends the program.
Crashed == [p \in Procs |-> [IdleProc EXCEPT !.pc = "crashed"]]

\* The connection opens: the channel is made and registered under clientsMu,
\* and the goroutine sending the initial snapshot is started.
handleEvents(c) ==
    /\ conn[c] = "free"
    /\ proc[Sender(c)].pc = "idle"
    /\ conn' = [conn EXCEPT ![c] = "open"]
    /\ clients' = clients \cup {c}
    /\ proc' = [proc EXCEPT ![Sender(c)] = [@ EXCEPT !.pc = "si_read"]]
    /\ UNCHANGED <<mode, statuses, cacheItems, expiresAt, queue, db, disk, logged, cycled, now, remaining, polls, wsDeleted, wsListed>>

\* case msg := <-msgChan: the message is written to the response.
handleEventsDeliver(c) ==
    /\ conn[c] = "open"
    /\ queue[c] # <<>>
    /\ queue' = [queue EXCEPT ![c] = Tail(@)]
    /\ UNCHANGED <<mode, statuses, cacheItems, expiresAt, clients, conn, db, disk, logged, cycled, now, remaining, polls, wsDeleted, wsListed, proc>>

\* handleEventsClose without the delete from s.clients.
handleEventsCloseStaysRegistered(c) ==
    /\ conn[c] = "open"
    /\ conn' = [conn EXCEPT ![c] = "unregistered"]
    /\ UNCHANGED <<mode, statuses, cacheItems, expiresAt, clients, queue, db, disk, logged, cycled, now, remaining, polls, wsDeleted, wsListed, proc>>

\* case <-r.Context().Done(): the loop returns and the deferred function
\* takes the channel out of s.clients under clientsMu. The channel is still
\* open.
handleEventsClose(c) ==
    /\ conn[c] = "open"
    /\ conn' = [conn EXCEPT ![c] = "unregistered"]
    /\ clients' = clients \ {c}
    /\ UNCHANGED <<mode, statuses, cacheItems, expiresAt, queue, db, disk, logged, cycled, now, remaining, polls, wsDeleted, wsListed, proc>>

\* close(msgChan), after clientsMu has been released: nothing reads the
\* channel any more and what it holds is dropped with it.
handleEventsCloseChan(c) ==
    /\ conn[c] = "unregistered"
    /\ conn' = [conn EXCEPT ![c] = "closed"]
    /\ queue' = [queue EXCEPT ![c] = <<>>]
    /\ UNCHANGED <<mode, statuses, cacheItems, expiresAt, clients, db, disk, logged, cycled, now, remaining, polls, wsDeleted, wsListed, proc>>

\* items, fresh := s.cachedItemsFresh(); a stale or empty cache is refreshed.
sendInitialRead(c) ==
    /\ proc[Sender(c)].pc = "si_read"
    /\ proc' = [proc EXCEPT ![Sender(c)] =
          IF ~cachedItemsFresh.fresh \/ Len(cachedItemsFresh.items) = 0
          THEN Call(@, "rf_list", <<"si_read2">>)
          ELSE [@ EXCEPT !.items = cachedItemsFresh.items, !.pc = "si_enrich"]]
    /\ UNCHANGED <<mode, statuses, cacheItems, expiresAt, clients, queue, conn, db, disk, logged, cycled, now, remaining, polls, wsDeleted, wsListed>>

\* items, _ = s.cachedItemsFresh() after the refresh; nothing is sent for an
\* empty list.
sendInitialReread(c) ==
    /\ proc[Sender(c)].pc = "si_read2"
    /\ proc' = [proc EXCEPT ![Sender(c)] =
          IF Len(cachedItemsFresh.items) = 0 THEN Finished(@, 0)
          ELSE [@ EXCEPT !.items = cachedItemsFresh.items, !.pc = "si_enrich"]]
    /\ UNCHANGED <<mode, statuses, cacheItems, expiresAt, clients, queue, conn, db, disk, logged, cycled, now, remaining, polls, wsDeleted, wsListed>>

\* s.enrichItems(items) under modeMu.RLock.
sendInitialEnrich(c) ==
    /\ proc[Sender(c)].pc = "si_enrich"
    /\ proc' = [proc EXCEPT ![Sender(c)] = [@ EXCEPT !.items = enrichItems(@), !.pc = "si_send"]]
    /\ UNCHANGED <<mode, statuses, cacheItems, expiresAt, clients, queue, conn, db, disk, logged, cycled, now, remaining, polls, wsDeleted, wsListed>>

\* select { case ch <- msg: default: } on the connection's own channel; a
\* send on a closed channel panics.
sendInitialSend(c) ==
    /\ proc[Sender(c)].pc = "si_send"
    /\ IF conn[c] = "closed"
       THEN /\ proc' = Crashed
            /\ UNCHANGED queue
       ELSE /\ queue' = [queue EXCEPT ![c] =
                  IF Len(@) < chanCap THEN Append(@, RegistryMsg(proc[Sender(c)].items)) ELSE @]
            /\ proc' = [proc EXCEPT ![Sender(c)] = Finished(@, 0)]
    /\ UNCHANGED <<mode, statuses, cacheItems, expiresAt, clients, conn, db, disk, logged, cycled, now, remaining, polls, wsDeleted, wsListed>>

(***************************************************************************)
(* runPoller.                                                              *)
(***************************************************************************)
\* runPoller counting down and ticking whatever the mode is.
runPollerAnyMode ==
    /\ proc[Poller].pc = "wait"
    /\ polls' = IF polls < MaxPolls THEN polls + 1 ELSE polls
    /\ remaining' = remaining - 1
    /\ proc' = [proc EXCEPT ![Poller] = [@ EXCEPT !.pc = "pt_tick", !.streak = @ + 1]]
    /\ UNCHANGED <<mode, statuses, cacheItems, expiresAt, clients, queue, conn, db, disk, logged, cycled, now, wsDeleted, wsListed>>

\* case <-ticker.C: the mode is sampled under modeMu.RLock; in AUTO the
\* countdown is decremented, otherwise it is reset. polls counts the ticks
\* of the ticker, up to MaxPolls.
runPoller ==
    /\ proc[Poller].pc = "wait"
    /\ polls' = IF polls < MaxPolls THEN polls + 1 ELSE polls
    /\ IF mode = "AUTO"
       THEN /\ remaining' = remaining - 1
            /\ proc' = [proc EXCEPT ![Poller] = [@ EXCEPT !.pc = "pt_tick", !.streak = @ + 1]]
       ELSE /\ remaining' = autoRefreshTicks
            /\ proc' = [proc EXCEPT ![Poller] = [@ EXCEPT !.streak = 0]]
    /\ UNCHANGED <<mode, statuses, cacheItems, expiresAt, clients, queue, conn, db, disk, logged, cycled, now, wsDeleted, wsListed>>

\* broadcastTick with the refresh started below zero only.
broadcastTickLate ==
    /\ proc[Poller].pc = "pt_tick"
    /\ queue' = Send(queue, clients, TickMsg(remaining))
    /\ proc' = [proc EXCEPT ![Poller] =
          IF remaining < 0
          THEN Call(@, "rf_list", <<"br_read", "pt_reset">>)
          ELSE [@ EXCEPT !.pc = "wait"]]
    /\ UNCHANGED <<mode, statuses, cacheItems, expiresAt, clients, conn, db, disk, logged, cycled, now, remaining, polls, wsDeleted, wsListed>>

\* s.broadcastTick(remaining); at zero the refresh and the broadcast follow.
broadcastTick ==
    /\ proc[Poller].pc = "pt_tick"
    /\ queue' = Send(queue, clients, TickMsg(remaining))
    /\ proc' = [proc EXCEPT ![Poller] =
          IF remaining <= 0
          THEN Call(@, "rf_list", <<"br_read", "pt_reset">>)
          ELSE [@ EXCEPT !.pc = "wait"]]
    /\ UNCHANGED <<mode, statuses, cacheItems, expiresAt, clients, conn, db, disk, logged, cycled, now, remaining, polls, wsDeleted, wsListed>>

\* remaining = autoRefreshTicks after the refresh and the broadcast.
runPollerReset ==
    /\ proc[Poller].pc = "pt_reset"
    /\ remaining' = autoRefreshTicks
    /\ proc' = [proc EXCEPT ![Poller] = [@ EXCEPT !.pc = "wait", !.streak = 0]]
    /\ UNCHANGED <<mode, statuses, cacheItems, expiresAt, clients, queue, conn, db, disk, logged, cycled, now, polls, wsDeleted, wsListed>>

(***************************************************************************)
(* The environment: time passes; the program is stopped and started again. *)
(***************************************************************************)
Advance ==
    /\ now < MaxTime
    /\ now' = now + 1
    /\ UNCHANGED <<mode, statuses, cacheItems, expiresAt, clients, queue, conn, db, disk, logged, cycled, remaining, polls, wsDeleted, wsListed, proc>>

Quiescent == \A p \in Procs : proc[p].pc \in {"idle", "done", "wait", "off"}

\* How many operations of one start return an error.
MaxStartFailures == 1

\* The operations that return an error in one start.
StartFailures == {F \in SUBSET StartOps : Cardinality(F) <= MaxStartFailures}

\* NewServer on the directory the stopped program left behind (pc "off":
\* the program has not run yet).
NewServer ==
    /\ Quiescent
    /\ \E p \in Procs : proc[p].pc \in {"done", "off"}
    /\ \E F \in StartFailures :
          /\ mode' = loadState(F).mode
          /\ statuses' = loadState(F).statuses
          /\ db' = loadState(F).db
          /\ disk' = loadState(F).disk
          /\ logged' = loadState(F).logged
    /\ cacheItems' = <<>>
    /\ expiresAt' = 0
    /\ clients' = {}
    /\ queue' = [c \in Chans |-> <<>>]
    /\ conn' = [c \in Chans |-> "free"]
    /\ remaining' = autoRefreshTicks
    /\ polls' = 0
    /\ proc' = [p \in Procs |-> IF p = Poller THEN [IdleProc EXCEPT !.pc = "wait"] ELSE IdleProc]
    /\ UNCHANGED <<cycled, now, wsDeleted, wsListed>>

(***************************************************************************)
(* Steps shared by every caller of refreshRegistryCache,                   *)
(* triggerStateSnapshot and broadcastRegistry.                             *)
(***************************************************************************)
RefreshStep(p) ==
    \/ refreshListFailed(p)
    \/ refreshList(p)
    \/ backfillKeepStatuses(p)
    \/ backfillBroadcast(p)
    \/ cleanupStaleStatuses(p)
    \/ refreshSwap(p)

SnapshotStep(p) ==
    \/ snapshotCopy(p)
    \/ snapshotSetMode(p)
    \/ snapshotSetModeFailed(p)
    \/ snapshotSetStatus(p)
    \/ snapshotSetStatusFailed(p)

BroadcastRegistryStep(p) ==
    \/ broadcastRegistryRead(p)
    \/ broadcastRegistryReread(p)
    \/ broadcastRegistryEnrich(p)
    \/ broadcastRegistrySend(p)

(***************************************************************************)
(* The whole program.                                                      *)
(***************************************************************************)
Next ==
    \/ polls < MaxPolls /\ runPoller
    \/ broadcastTick
    \/ runPollerReset
    \/ Advance
    \/ NewServer
    \/ \E c \in Chans :
          \/ handleEvents(c)
          \/ handleEventsDeliver(c)
          \/ handleEventsClose(c)
          \/ handleEventsCloseChan(c)
          \/ sendInitialRead(c)
          \/ sendInitialReread(c)
          \/ sendInitialEnrich(c)
          \/ sendInitialSend(c)
    \/ \E p \in Handlers :
          \/ \E id \in IdInputs, status \in StatusInputs : handleStatus(p, id, status)
          \/ handleStatusTitle(p)
          \/ handleStatusBroadcast(p)
          \/ \E newMode \in ModeInputs : handleMode(p, newMode)
          \/ \E id \in IdInputs : handleDelete(p, id)
          \/ handleDeleteCall(p)
          \/ \E id \in {"", "d"} : handleDeleteSheet(p, id)
          \/ \E id \in {"", "d"} : handleDeleteDoc(p, id)
          \/ handleDeleteFileRefresh(p)
          \/ \E method \in {"GET", "POST"}, decodes \in BOOLEAN, task \in TaskInputs :
                handleAutomationTask(p, method, decodes, task)
          \/ handleAutomationDispatch(p)
          \/ handleAutomationBroadcast(p)
          \/ \E id \in IdInputs : handleNoteDetail(p, id)
          \/ ensureStatusDefault(p)
          \/ ensureKeepNoteCached(p)
          \/ \E id \in ContentIdInputs : handleGetRegistryContent(p, id)
          \/ statusForKeep(p)
          \/ \E refresh \in RefreshInputs : handleRegistry(p, refresh)
          \/ handleRegistryRead(p)
          \/ handleRegistryReread(p)
          \/ handleRegistryEnrich(p)
          \/ handleRegistryWrite(p)
    \/ \E p \in Procs :
          \/ RefreshStep(p)
          \/ SnapshotStep(p)
          \/ BroadcastRegistryStep(p)

Spec == Init /\ [][Next]_vars

(***************************************************************************)
(* The server after its first client has connected and a first refresh has *)
(* returned <<itemA, itemB, itemD>>: the cache is fresh, both notes are    *)
(* Pending in memory and in the database, the client has read everything.  *)
(***************************************************************************)
InitWarm ==
    /\ db = [mode |-> "AUTO", statuses |-> Backfilled(EmptyMap, <<itemA, itemB, itemD>>)]
    /\ disk = NoLegacy
    /\ logged = {}
    /\ cycled = NoCycle
    /\ mode = "AUTO"
    /\ statuses = Backfilled(EmptyMap, <<itemA, itemB, itemD>>)
    /\ cacheItems = <<itemA, itemB, itemD>>
    /\ now = 1
    /\ expiresAt = now + cacheTTL
    /\ clients = {1}
    /\ queue = [c \in Chans |-> <<>>]
    /\ conn = [c \in Chans |-> IF c = 1 THEN "open" ELSE "free"]
    /\ remaining = autoRefreshTicks
    /\ polls = 0
    /\ wsDeleted = {}
    /\ wsListed = cacheItems
    /\ proc = [p \in Procs |->
                 IF p = Poller THEN [IdleProc EXCEPT !.pc = "wait"]
                 ELSE IF p = Sender(1) THEN Finished(IdleProc, 0)
                 ELSE IdleProc]

(***************************************************************************)
(* Status edits and mode changes arriving concurrently at a warm server.   *)
(***************************************************************************)
NextStatus ==
    \E p \in Handlers :
        \/ \E id \in IdInputs, status \in StatusInputs : handleStatus(p, id, status)
        \/ handleStatusTitle(p)
        \/ handleStatusBroadcast(p)
        \/ \E newMode \in ModeInputs : handleMode(p, newMode)
        \/ SnapshotStep(p)
        \/ broadcastRegistryRead(p)
        \/ broadcastRegistryEnrich(p)
        \/ broadcastRegistrySend(p)

SpecStatus == InitWarm /\ [][NextStatus]_vars

(***************************************************************************)
(* Concurrent status edits of one note, valid and invalid, with a database *)
(* whose writes may fail.                                                  *)
(***************************************************************************)
NextEdit ==
    \E p \in Handlers :
        \/ \E id \in {"", "a"}, status \in {"Invalid", "Complete", "Execute"} : handleStatus(p, id, status)
        \/ handleStatusTitle(p)
        \/ handleStatusBroadcast(p)
        \/ SnapshotStep(p)
        \/ broadcastRegistryRead(p)
        \/ broadcastRegistryEnrich(p)
        \/ broadcastRegistrySend(p)

SpecEdit == InitWarm /\ [][NextEdit]_vars

(***************************************************************************)
(* Status edits of one note on a warm server without subscribers, in       *)
(* either mode, beside a registry read with refresh=1 (which in MANUAL     *)
(* mode refreshes, and refreshes again when the listing was empty) or a    *)
(* content read of the note, with a database whose writes may fail.        *)
(***************************************************************************)
InitEditFlush ==
    /\ mode \in {"AUTO", "MANUAL"}
    /\ db = [mode |-> mode, statuses |-> Backfilled(EmptyMap, <<itemA, itemB, itemD>>)]
    /\ disk = NoLegacy
    /\ logged = {}
    /\ cycled = NoCycle
    /\ statuses = Backfilled(EmptyMap, <<itemA, itemB, itemD>>)
    /\ cacheItems = <<itemA, itemB, itemD>>
    /\ now = 1
    /\ expiresAt = now + cacheTTL
    /\ clients = {}
    /\ queue = [c \in Chans |-> <<>>]
    /\ conn = [c \in Chans |-> "free"]
    /\ remaining = autoRefreshTicks
    /\ polls = 0
    /\ wsDeleted = {}
    /\ wsListed = cacheItems
    /\ proc = [p \in Procs |-> IF p = Poller THEN [IdleProc EXCEPT !.pc = "wait"] ELSE IdleProc]

NextEditFlush ==
    \/ \E p \in Handlers :
          \/ \E status \in {"Complete", "Execute"} : handleStatus(p, "a", status)
          \/ handleStatusTitle(p)
          \/ handleStatusBroadcast(p)
          \/ SnapshotStep(p)
          \/ RefreshStep(p)
          \/ BroadcastRegistryStep(p)
    \/ \E p \in Handlers \ {1} :
          \/ handleRegistry(p, "1")
          \/ handleRegistryRead(p)
          \/ handleRegistryReread(p)
          \/ handleRegistryEnrich(p)
          \/ handleRegistryWrite(p)
          \/ handleGetRegistryContent(p, "a")
          \/ ensureStatusDefault(p)
          \/ ensureKeepNoteCached(p)
          \/ statusForKeep(p)

SpecEditFlush == InitEditFlush /\ [][NextEditFlush]_vars

(***************************************************************************)
(* Properties of the status endpoint.                                      *)
(***************************************************************************)
\* The step in which handler p receives a status request.
StatusArrives(p) == proc[p].pc = "idle" /\ proc'[p].req.kind = "status"

\* The step in which process p sends to the clients.
Publishes(p) ==
    /\ proc[p].pc \in {"hs_bcast", "br_send", "rf_bcast", "ha_bcast", "pt_tick"}
    /\ proc'[p] # proc[p]
    /\ proc'[p].pc # "crashed"

AcceptedEdit(p) == proc[p].req.kind = "status" /\ proc[p].updated

Returned200(p) == proc[p].pc = "done" /\ proc[p].resp = 200

\* C4 as claimed: once the status edits and mode changes have run to
\* completion, every write having succeeded, the database holds the
\* statuses and the mode of the memory.
C4_DurableEqualsMemory ==
    (\A p \in Handlers : proc[p].pc \in {"idle", "done"} /\ proc[p].failed = {})
        => (GetStatuses(db) = statuses /\ GetMode(db) = mode)

\* C8: a status request with an empty id or a status outside the seven
\* recognized values is answered 400 and changes neither the status table nor
\* the database nor any client queue; any other request overwrites the record
\* of its id, whatever the table held, and leaves the other records alone.
C8_StatusValidation ==
    [][\A p \in Handlers :
          StatusArrives(p) =>
             LET id == proc'[p].req.id
                 status == proc'[p].req.arg
             IN IF id = "" \/ status \notin allowedStatuses
                THEN /\ proc'[p].pc = "done" /\ proc'[p].resp = 400
                     /\ statuses' = statuses /\ db' = db /\ queue' = queue
                ELSE /\ proc'[p].pc # "done"
                     /\ DOMAIN statuses' = DOMAIN statuses \cup {id}
                     /\ statuses'[id] = status
                     /\ \A x \in DOMAIN statuses \ {id} : statuses'[x] = statuses[x]]_vars

\* A request was refused for its status, and an accepted one has overwritten
\* a record that held another status.
C8_Witness ==
    /\ \E p \in Handlers : proc[p].resp = 400 /\ proc[p].req.kind = "status" /\ proc[p].req.id # ""
    /\ \E p \in Handlers : AcceptedEdit(p) /\ proc[p].req.arg = "Complete"
                            /\ statuses[proc[p].req.id] = "Complete"

\* What the status table st holds for id ("-" when there is no record).
Rec(st, id) == IF id \in DOMAIN st THEN st[id] ELSE "-"

\* Handler p has accepted a status edit and has not yet copied the table
\* for its flush.
BeforeCopy(p) == AcceptedEdit(p) /\ proc[p].seen = "" /\ proc[p].pc # "done"

\* The step in which the flush that handler p's status edit called returns
\* to handleStatus, which goes on to broadcastRegistry.
FlushReturns(p) ==
    /\ AcceptedEdit(p)
    /\ proc[p].pc \in {"ss_mode", "ss_status"}
    /\ proc'[p].pc = "br_read"

\* C9 as claimed: an accepted status edit that returns 200 has updated the
\* table, and when its flush returns, before the response, the handler has
\* written the status of the request to the database.
C9_WroteOwnStatus ==
    /\ [](\A p \in Handlers : (Returned200(p) /\ proc[p].req.kind = "status") =>
             (proc[p].updated /\ proc[p].seen # ""))
    /\ [][\A p \in Handlers : FlushReturns(p) => proc'[p].wrote = proc[p].req.arg]_vars

\* C9 amended: an accepted status edit puts its status in the table on
\* arrival. Until the handler copies the table for its flush, the record of
\* the id is changed only by a concurrent edit of the same id, by the
\* cleanup of a concurrent refresh, which removes it, or by a concurrent
\* operation that creates the removed record anew as Pending (the backfill
\* of a refresh, a lazy default). The copy holds what the table then
\* holds for the id, and when the flush returns, before the response, the
\* handler has written that value to the database, or has called the write
\* and the database has returned an error, or has written nothing for the id
\* because the copy had no record of it.
C9_FlushBeforeReturn ==
    /\ [](\A p \in Handlers : (Returned200(p) /\ proc[p].req.kind = "status") =>
             (proc[p].updated /\ proc[p].seen # ""))
    /\ [][\A p \in Handlers : (StatusArrives(p) /\ proc'[p].updated) =>
             Rec(statuses', proc'[p].req.id) = proc'[p].req.arg]_vars
    /\ [][\A p \in Handlers : (BeforeCopy(p) /\ Rec(statuses', proc[p].req.id) # Rec(statuses, proc[p].req.id)) =>
             \E q \in Procs \ {p} :
                /\ proc'[q] # proc[q]
                /\ \/ /\ StatusArrives(q)
                      /\ proc'[q].req.id = proc[p].req.id
                      /\ Rec(statuses', proc[p].req.id) = proc'[q].req.arg
                   \/ /\ proc[q].pc = "rf_cleanup"
                      /\ Rec(statuses', proc[p].req.id) = "-"
                   \/ /\ Rec(statuses, proc[p].req.id) = "-"
                      /\ Rec(statuses', proc[p].req.id) = "Pending"]_vars
    /\ [][\A p \in Handlers : (BeforeCopy(p) /\ proc[p].pc = "ss_copy" /\ proc'[p] # proc[p]) =>
             proc'[p].seen = Rec(statuses, proc[p].req.id)]_vars
    /\ [][\A p \in Handlers : FlushReturns(p) =>
             LET id == proc[p].req.id
                 r == proc'[p]
             IN  IF r.seen = "-" THEN r.wrote = "" /\ id \notin r.failed
                 ELSE IF id \in r.failed THEN r.wrote = ""
                 ELSE r.wrote = r.seen]_vars

\* The only edit, of a to Complete, has flushed Pending for a: a refresh
\* that listed nothing removed the record and a second refresh created it
\* anew before the handler copied the table.
C9_Witness ==
    \E p \in Handlers :
        /\ AcceptedEdit(p) /\ proc[p].pc = "br_read"
        /\ proc[p].req.arg = "Complete"
        /\ proc[p].seen = "Pending" /\ proc[p].wrote = "Pending"
        /\ \A q \in Handlers \ {p} : proc[q].req.kind = "registry"

\* An edit has flushed the status of a concurrent edit of the same id.
EditWroteOtherStatus ==
    \E p, q \in Handlers :
        /\ p # q /\ AcceptedEdit(p) /\ AcceptedEdit(q) /\ proc[p].pc = "br_read"
        /\ proc[p].wrote = proc[q].req.arg /\ proc[p].wrote # proc[p].req.arg

\* An edit has flushed nothing for its id, a refresh having removed the
\* record before the copy.
EditRecordRemoved ==
    \E p \in Handlers :
        AcceptedEdit(p) /\ proc[p].pc = "br_read" /\ proc[p].seen = "-" /\ proc[p].wrote = ""

\* An edit has returned 200 although the write of its record failed.
EditWriteFailed ==
    \E p \in Handlers :
        /\ Returned200(p) /\ AcceptedEdit(p)
        /\ proc[p].seen = proc[p].req.arg
        /\ proc[p].req.id \in proc[p].failed /\ proc[p].wrote = ""

\* C10 as claimed: every event that an accepted status edit sends (the
\* status event and the snapshot event) is sent after the in-memory update
\* and after the handler's durable write of the id's record.
C10_EventsAfterDurableWrite ==
    [][\A p \in Handlers :
          AcceptedEdit(p) /\ Publishes(p) => proc[p].updated /\ proc[p].wrote # ""]_vars


(***************************************************************************)
(* Refreshes, upserts and status edits on a cache that has gone stale: the *)
(* state of InitWarm after cacheTTL has passed, in either mode.            *)
(***************************************************************************)
InitStale ==
    /\ mode \in {"AUTO", "MANUAL"}
    /\ db = [mode |-> mode, statuses |-> Backfilled(EmptyMap, <<itemA, itemB, itemD>>)]
    /\ disk = NoLegacy
    /\ logged = {}
    /\ cycled = NoCycle
    /\ statuses = Backfilled(EmptyMap, <<itemA, itemB, itemD>>)
    /\ cacheItems = <<itemA, itemB, itemD>>
    /\ expiresAt = 1 + cacheTTL
    /\ now = expiresAt
    /\ clients = {1}
    /\ queue = [c \in Chans |-> <<>>]
    /\ conn = [c \in Chans |-> IF c = 1 THEN "open" ELSE "free"]
    /\ remaining = autoRefreshTicks
    /\ polls = 0
    /\ wsDeleted = {}
    /\ wsListed = cacheItems
    /\ proc = [p \in Procs |-> IF p = Poller THEN [IdleProc EXCEPT !.pc = "wait"]
                 ELSE IF p = Sender(1) THEN Finished(IdleProc, 0) ELSE IdleProc]

NextRefresh ==
    \E p \in Handlers :
        \/ \E refresh \in RefreshInputs : handleRegistry(p, refresh)
        \/ handleRegistryRead(p)
        \/ handleRegistryReread(p)
        \/ handleRegistryEnrich(p)
        \/ handleRegistryWrite(p)
        \/ RefreshStep(p)
        \/ SnapshotStep(p)
        \/ BroadcastRegistryStep(p)

SpecRefresh == InitStale /\ [][NextRefresh]_vars

(***************************************************************************)
(* The cache over time: reads that refresh a stale cache, note details     *)
(* that upsert one item, and the clock. The first refresh has returned     *)
(* <<itemA>> and the client has read everything.                           *)
(***************************************************************************)
InitOneNote ==
    /\ db = [mode |-> "AUTO", statuses |-> Backfilled(EmptyMap, <<itemA>>)]
    /\ disk = NoLegacy
    /\ logged = {}
    /\ cycled = NoCycle
    /\ mode = "AUTO"
    /\ statuses = Backfilled(EmptyMap, <<itemA>>)
    /\ cacheItems = <<itemA>>
    /\ now = 1
    /\ expiresAt = now + cacheTTL
    /\ clients = {1}
    /\ queue = [c \in Chans |-> <<>>]
    /\ conn = [c \in Chans |-> IF c = 1 THEN "open" ELSE "free"]
    /\ remaining = autoRefreshTicks
    /\ polls = 0
    /\ wsDeleted = {}
    /\ wsListed = cacheItems
    /\ proc = [p \in Procs |-> IF p = Poller THEN [IdleProc EXCEPT !.pc = "wait"]
                 ELSE IF p = Sender(1) THEN Finished(IdleProc, 0) ELSE IdleProc]

NextExpiry ==
    \/ Advance
    \/ \E p \in 1 .. NumReaders :
          \/ \E refresh \in RefreshInputs : handleRegistry(p, refresh)
          \/ handleRegistryRead(p)
          \/ handleRegistryReread(p)
          \/ handleRegistryEnrich(p)
          \/ handleRegistryWrite(p)
          \/ \E id \in IdInputs : handleNoteDetail(p, id)
          \/ ensureStatusDefault(p)
          \/ ensureKeepNoteCached(p)
          \/ RefreshStep(p)
          \/ SnapshotStep(p)
          \/ broadcastRegistryRead(p)
          \/ broadcastRegistryEnrich(p)
          \/ broadcastRegistrySend(p)

SpecExpiry == InitOneNote /\ [][NextExpiry]_vars

(***************************************************************************)
(* Deletes in either mode, with mode changes beside them.                  *)
(***************************************************************************)
InitEitherMode ==
    /\ mode \in {"AUTO", "MANUAL"}
    /\ db = [mode |-> mode, statuses |-> Backfilled(EmptyMap, <<itemA, itemB, itemD>>)]
    /\ disk = NoLegacy
    /\ logged = {}
    /\ cycled = NoCycle
    /\ statuses = Backfilled(EmptyMap, <<itemA, itemB, itemD>>)
    /\ cacheItems = <<itemA, itemB, itemD>>
    /\ now = 1
    /\ expiresAt = now + cacheTTL
    /\ clients = {}
    /\ queue = [c \in Chans |-> <<>>]
    /\ conn = [c \in Chans |-> "free"]
    /\ remaining = autoRefreshTicks
    /\ polls = 0
    /\ wsDeleted = {}
    /\ wsListed = cacheItems
    /\ proc = [p \in Procs |-> IF p = Poller THEN [IdleProc EXCEPT !.pc = "wait"] ELSE IdleProc]

NextDelete ==
    \/ \E p \in Handlers :
          \/ \E id \in IdInputs : handleDelete(p, id)
          \/ handleDeleteCall(p)
          \/ \E id \in {"", "d"} : handleDeleteSheet(p, id)
          \/ \E id \in {"", "d"} : handleDeleteDoc(p, id)
          \/ handleDeleteFileRefresh(p)
    \/ \E p \in Handlers \cup Asyncs :
          \/ RefreshStep(p)
          \/ SnapshotStep(p)
          \/ BroadcastRegistryStep(p)

SpecDelete == InitEitherMode /\ [][NextDelete]_vars

(***************************************************************************)
(* The hub: clients connect, read and disconnect while the poller ticks    *)
(* and status edits publish. The first client has not read any of the      *)
(* ticks of the first Backlog seconds.                                     *)
(***************************************************************************)
InitBacklog ==
    /\ db = [mode |-> "AUTO", statuses |-> Backfilled(EmptyMap, <<itemA, itemB, itemD>>)]
    /\ disk = NoLegacy
    /\ logged = {}
    /\ cycled = NoCycle
    /\ mode = "AUTO"
    /\ statuses = Backfilled(EmptyMap, <<itemA, itemB, itemD>>)
    /\ cacheItems = <<itemA, itemB, itemD>>
    /\ now = 1
    /\ expiresAt = now + cacheTTL
    /\ clients = {1}
    /\ queue = [c \in Chans |->
                  IF c = 1 THEN [i \in 1 .. Backlog |-> TickMsg(autoRefreshTicks - i)] ELSE <<>>]
    /\ conn = [c \in Chans |-> IF c = 1 THEN "open" ELSE "free"]
    /\ remaining = autoRefreshTicks - Backlog
    /\ polls = Backlog
    /\ wsDeleted = {}
    /\ wsListed = cacheItems
    /\ proc = [p \in Procs |-> IF p = Poller THEN [IdleProc EXCEPT !.pc = "wait", !.streak = Backlog]
                 ELSE IF p = Sender(1) THEN Finished(IdleProc, 0) ELSE IdleProc]

NextHub ==
    \/ polls < MaxPolls /\ runPoller
    \/ broadcastTick
    \/ \E c \in Chans :
          \/ handleEvents(c)
          \/ handleEventsDeliver(c)
          \/ handleEventsClose(c)
          \/ handleEventsCloseChan(c)
          \/ sendInitialRead(c)
          \/ sendInitialEnrich(c)
          \/ sendInitialSend(c)
    \/ \E p \in 1 .. NumEditors :
          \/ \E id \in {"", "a"}, status \in {"Invalid", "Complete"} : handleStatus(p, id, status)
          \/ handleStatusTitle(p)
          \/ handleStatusBroadcast(p)
          \/ SnapshotStep(p)
          \/ broadcastRegistryRead(p)
          \/ broadcastRegistryEnrich(p)
          \/ broadcastRegistrySend(p)

SpecHub == InitBacklog /\ [][NextHub]_vars

(***************************************************************************)
(* Properties of the hub.                                                  *)
(***************************************************************************)
\* A publisher about to send can take its step.
CanPublish ==
    /\ proc[Poller].pc = "pt_tick" => ENABLED broadcastTick
    /\ \A p \in Handlers :
          /\ proc[p].pc = "hs_bcast" => ENABLED handleStatusBroadcast(p)
          /\ proc[p].pc = "br_send" => ENABLED broadcastRegistrySend(p)

\* C1: no queue ever holds more than 10 messages; a publisher is never kept
\* from sending, whatever the queues hold; and every publish appends one and
\* the same message to the queue of every registered subscriber with free
\* space and leaves every other queue (full, or not registered) as it is.
C1_PublishSkipsFull ==
    /\ [](\A c \in Chans : Len(queue[c]) <= chanCap)
    /\ []CanPublish
    /\ [][\A p \in Procs : Publishes(p) =>
             LET receivers == {c \in clients : Len(queue[c]) < chanCap} IN
             /\ \A c \in Chans \ receivers : queue'[c] = queue[c]
             /\ \A c \in receivers :
                   /\ Len(queue'[c]) = Len(queue[c]) + 1
                   /\ SubSeq(queue'[c], 1, Len(queue[c])) = queue[c]
             /\ \A c, d \in receivers : queue'[c][Len(queue'[c])] = queue'[d][Len(queue'[d])]]_vars

\* One subscriber's queue is full and has missed a message that the other
\* subscriber has just been sent.
C1_Witness ==
    \E c, d \in clients :
        /\ Len(queue[c]) = chanCap
        /\ queue[d] # <<>>
        /\ Len(queue[d]) < chanCap
        /\ queue[d][Len(queue[d])] \notin Range(queue[c])
        /\ queue[d][Len(queue[d])].event \in {"tick", "status"}

(***************************************************************************)
(* Properties of the refresh.                                              *)
(***************************************************************************)
\* C2 as claimed: when no request is in progress, the keep items of the
\* cache and the status records have the same ids.
C2_KeepItemsHaveRecords ==
    (\A p \in Procs : proc[p].pc \in {"idle", "done", "wait"})
        => KeepIDs(cacheItems) = DOMAIN statuses

\* The step in which process p returns from the refresh that removed ids,
\* no other process being at work.
RefreshReturns(p) ==
    /\ proc[p].removed # {}
    /\ proc'[p].removed = {}
    /\ \A q \in Procs \ {p} : proc[q].pc \in {"idle", "done", "wait"}

\* C3 as claimed: when a refresh that removed records returns, the ids are
\* neither in the memory nor in the database, so that a restart does not
\* load them.
C3_RemovedFromDurable ==
    [][\A p \in Procs : RefreshReturns(p) =>
          \A id \in proc[p].removed :
             /\ id \notin DOMAIN statuses'
             /\ id \notin DOMAIN GetStatuses(db')
             /\ id \notin DOMAIN loadState({})'.statuses]_vars

\* The step in which the provider call of process p's refresh fails.
RefreshFails(p) ==
    /\ proc[p].pc = "rf_list"
    /\ proc'[p] # proc[p]
    /\ proc'[p].pc # "rf_backfill"

\* C5: a refresh whose provider call fails leaves the cached items, the
\* expiry, the status table and the database as they were and sends nothing
\* to any client.
C5_FailedRefreshChangesNothing ==
    [][\A p \in Procs : RefreshFails(p) =>
          /\ cacheItems' = cacheItems
          /\ expiresAt' = expiresAt
          /\ statuses' = statuses
          /\ db' = db
          /\ queue' = queue
          /\ mode' = mode]_vars

\* A handler of /api/registry is back from a refresh with the cache still
\* expired, as only a failed refresh leaves it, with items in the cache and
\* a client connected.
C5_Witness ==
    \E p \in Handlers :
        /\ proc[p].pc = "hr_read2"
        /\ ~cachedItemsFresh.fresh
        /\ expiresAt = 1 + cacheTTL
        /\ cacheItems # <<>>
        /\ DOMAIN statuses # {}
        /\ clients # {}

\* The step is one that writes the cache of process p: the swap of a
\* refresh or, with upsert, the upsert of one note.
WritesCache(p, upsert) ==
    /\ proc[p].pc \in (IF upsert THEN {"rf_swap", "ek_upsert"} ELSE {"rf_swap"})
    /\ proc'[p] # proc[p]

\* C6 as claimed: the expiry never decreases and is changed only by the swap
\* of a successful refresh.
C6_ExpiryOnlyByRefresh ==
    [][/\ expiresAt' >= expiresAt
       /\ expiresAt' # expiresAt => \E p \in Procs : WritesCache(p, FALSE)]_vars

\* C6 amended: the expiry never decreases and is changed only by the swap
\* of a successful refresh or by the upsert of a single note, each setting
\* it to the current time plus the TTL.
C6_ExpiryMonotone ==
    [][/\ expiresAt' >= expiresAt
       /\ expiresAt' # expiresAt =>
             /\ \E p \in Procs : WritesCache(p, TRUE)
             /\ expiresAt' = now + cacheTTL]_vars

\* A note detail has upserted its note at the latest time and so advanced
\* the expiry, no refresh having been called.
C6_Witness ==
    /\ expiresAt = MaxTime + cacheTTL
    /\ \E p \in Handlers :
          proc[p].pc = "done" /\ proc[p].req.kind = "detail" /\ proc[p].req.arg # ""
    /\ \A p \in Handlers : proc[p].req.kind # "registry"

(***************************************************************************)
(* Properties of the deletes.                                              *)
(***************************************************************************)
\* C7 as claimed: a delete request (note, sheet or doc) that arrives while
\* the mode is not MANUAL is refused, the provider's delete is not called
\* and nothing changes.
C7_DeleteOnlyInManual ==
    [][\A p \in Handlers :
          (/\ proc[p].pc = "idle"
           /\ proc'[p].req.kind \in {"delete", "sheet", "doc"}
           /\ proc'[p].req.id # ""
           /\ mode # "MANUAL")
          => /\ proc'[p].pc = "done"
             /\ proc'[p].resp = 403
             /\ wsDeleted' = wsDeleted
             /\ <<statuses', cacheItems', expiresAt', db', queue'>> = <<statuses, cacheItems, expiresAt, db, queue>>]_vars

(***************************************************************************)
(* The poller through the first MaxPolls ticks of the ticker, in either    *)
(* mode, from the start of a countdown or with TicksLeft ticks of it left, *)
(* with a mode change beside it and a client that reads its events at its  *)
(* own pace.                                                               *)
(***************************************************************************)
TicksLeft == 3

\* The stale server in AUTO mode with the countdown at TicksLeft: the poller
\* has ticked autoRefreshTicks - TicksLeft times in AUTO since its last
\* reset and the client has read the tick events of those.
InitCountdown ==
    /\ mode = "AUTO"
    /\ db = [mode |-> mode, statuses |-> Backfilled(EmptyMap, <<itemA, itemB, itemD>>)]
    /\ disk = NoLegacy
    /\ logged = {}
    /\ cycled = NoCycle
    /\ statuses = Backfilled(EmptyMap, <<itemA, itemB, itemD>>)
    /\ cacheItems = <<itemA, itemB, itemD>>
    /\ expiresAt = 1 + cacheTTL
    /\ now = expiresAt
    /\ clients = {1}
    /\ queue = [c \in Chans |-> <<>>]
    /\ conn = [c \in Chans |-> IF c = 1 THEN "open" ELSE "free"]
    /\ remaining = TicksLeft
    /\ polls = 0
    /\ wsDeleted = {}
    /\ wsListed = cacheItems
    /\ proc = [p \in Procs |->
                 IF p = Poller THEN [IdleProc EXCEPT !.pc = "wait", !.streak = autoRefreshTicks - TicksLeft]
                 ELSE IF p = Sender(1) THEN Finished(IdleProc, 0) ELSE IdleProc]

NextPoller ==
    \/ polls < MaxPolls /\ runPoller
    \/ broadcastTick
    \/ runPollerReset
    \/ RefreshStep(Poller)
    \/ SnapshotStep(Poller)
    \/ BroadcastRegistryStep(Poller)
    \/ handleEventsDeliver(1)
    \/ \E p \in 1 .. NumEditors :
          \/ \E newMode \in {"AUTO", "MANUAL"} : handleMode(p, newMode)
          \/ SnapshotStep(p)

InitPoller == InitStale \/ InitCountdown

SpecPoller == InitPoller /\ [][NextPoller]_vars

(***************************************************************************)
(* A firing of the ticker: the poller leaves its wait on the ticker        *)
(* channel and something of its own changes.                               *)
(***************************************************************************)
Ticks ==
    /\ proc[Poller].pc = "wait"
    /\ <<remaining', polls', proc'[Poller]>> # <<remaining, polls, proc[Poller]>>

(* C11: while the sampled mode is MANUAL, a scheduler tick resets the      *)
(* counter to autoRefreshTicks, publishes no tick event, starts no refresh *)
(* and publishes no snapshot event: the poller is back at its wait, every  *)
(* queue and the cache are as before.                                      *)
C11_ManualTickIdle ==
    [][(Ticks /\ mode = "MANUAL") =>
          /\ remaining' = autoRefreshTicks
          /\ queue' = queue
          /\ proc'[Poller].pc = "wait"
          /\ proc'[Poller].ret = <<>>
          /\ cacheItems' = cacheItems
          /\ expiresAt' = expiresAt]_vars

\* A MANUAL tick has acted after a countdown had begun: fewer than
\* autoRefreshTicks polls, so the zero streak is the work of a MANUAL tick.
C11_Witness ==
    /\ mode = "MANUAL"
    /\ proc[Poller].pc = "wait"
    /\ polls \in 2 .. (MaxPolls - 1)
    /\ proc[Poller].streak = 0
    /\ remaining = autoRefreshTicks
    /\ proc[1].pc = "done"
    /\ \E c \in clients : \E i \in 1 .. Len(queue[c]) : queue[c][i].event = "tick"

(***************************************************************************)
(* Properties of the countdown.                                            *)
(***************************************************************************)
\* The tick events a client has not read yet.
TickEvents(q) == {i \in 1 .. Len(q) : q[i].event = "tick"}

(* C12: in AUTO mode each scheduler tick decrements the counter by exactly *)
(* one and publishes exactly one tick event, which carries the new value;  *)
(* no other step publishes a tick event; whatever the mode changes, every  *)
(* published tick value lies in 0 .. autoRefreshTicks - 1 and the counter  *)
(* lies in 1 .. autoRefreshTicks whenever the poller waits for a tick.     *)
C12_TickCountdown ==
    /\ [](/\ proc[Poller].pc = "wait" => remaining \in 1 .. autoRefreshTicks
          /\ \A c \in clients : \A i \in TickEvents(queue[c]) :
                queue[c][i].data.seconds_remaining \in 0 .. (autoRefreshTicks - 1))
    /\ [][/\ (Ticks /\ mode = "AUTO") =>
                /\ remaining' = remaining - 1
                /\ proc'[Poller].pc = "pt_tick"
                /\ queue' = queue
          /\ (proc[Poller].pc = "pt_tick" /\ proc'[Poller].pc # "pt_tick") =>
                /\ queue' = Send(queue, clients, TickMsg(remaining))
                /\ remaining' = remaining
          /\ (\E c \in clients :
                Cardinality(TickEvents(queue'[c])) > Cardinality(TickEvents(queue[c]))) =>
                proc[Poller].pc = "pt_tick"]_vars

\* A countdown that began after a mode change has published its first
\* value, autoRefreshTicks - 1, and the poller waits with that value.
C12_Witness ==
    /\ mode = "AUTO"
    /\ proc[Poller].pc = "wait"
    /\ proc[1].pc = "done"
    /\ polls \in 3 .. (MaxPolls - 1)
    /\ proc[Poller].streak = 1
    /\ remaining = autoRefreshTicks - 1
    /\ \E c \in clients :
          /\ queue[c] # <<>>
          /\ queue[c][Len(queue[c])] = TickMsg(autoRefreshTicks - 1)

(***************************************************************************)
(* Properties of the scheduled refresh.                                    *)
(***************************************************************************)
\* The poller is inside the refresh and snapshot it starts at zero.
PollerRefreshing == proc[Poller].pc \notin {"wait", "pt_tick", "pt_reset"}

(* C13: when the counter reaches zero in AUTO mode the scheduler calls the *)
(* refresh, then publishes a snapshot event built from what the cache      *)
(* holds when it reads it, whether the refresh succeeded or failed, and    *)
(* then resets the counter to autoRefreshTicks; the scheduler is inside a  *)
(* refresh only after autoRefreshTicks consecutive ticks sampled as AUTO.  *)
C13_RefreshAtZero ==
    /\ []((PollerRefreshing \/ proc[Poller].pc = "pt_reset") =>
             /\ remaining = 0
             /\ proc[Poller].streak = autoRefreshTicks)
    /\ [][/\ (proc[Poller].pc = "pt_tick" /\ proc'[Poller].pc # "pt_tick") =>
                IF remaining = 0
                THEN proc'[Poller].pc = "rf_list" /\ proc'[Poller].ret = <<"br_read", "pt_reset">>
                ELSE proc'[Poller].pc = "wait"
          /\ (proc[Poller].pc = "rf_list" /\ proc'[Poller].pc # "rf_list") =>
                /\ proc'[Poller].pc \in {"rf_backfill", "br_read", "br_read2"}
                /\ cacheItems' = cacheItems
          /\ (proc[Poller].pc # "br_enrich" /\ proc'[Poller].pc = "br_enrich") =>
                /\ proc[Poller].pc \in {"br_read", "br_read2"}
                /\ proc'[Poller].items = cacheItems
          /\ (proc[Poller].pc # "pt_reset" /\ proc'[Poller].pc = "pt_reset") =>
                /\ proc[Poller].pc = "br_send"
                /\ queue' = Send(queue, clients, RegistryMsg(proc[Poller].items))
          /\ (proc[Poller].pc = "pt_reset" /\ proc'[Poller].pc # "pt_reset") =>
                /\ remaining' = autoRefreshTicks
                /\ proc'[Poller].pc = "wait"]_vars

\* The snapshot event of a countdown whose refresh failed: the expiry is
\* still the one of the start, the event carries the cached list and the
\* poller is about to reset the counter.
C13_Witness ==
    /\ proc[Poller].pc = "pt_reset"
    /\ expiresAt = 1 + cacheTTL
    /\ remaining = 0
    /\ \E c \in clients :
          /\ queue[c] # <<>>
          /\ queue[c][Len(queue[c])] = RegistryMsg(enrichItems(cacheItems))

(***************************************************************************)
(* The poller under fair scheduling: the ticker keeps firing, the poller   *)
(* goroutine is scheduled and the Provider and the database answer every   *)
(* call (with a result or an error); the client has stopped reading, so    *)
(* its channel fills up, and a mode change may come at any time.           *)
(***************************************************************************)
PollerStep ==
    \/ runPoller
    \/ broadcastTick
    \/ runPollerReset
    \/ RefreshStep(Poller)
    \/ SnapshotStep(Poller)
    \/ BroadcastRegistryStep(Poller)

NextPollerFair ==
    \/ PollerStep
    \/ \E p \in 1 .. NumEditors :
          \/ \E newMode \in {"AUTO", "MANUAL"} : handleMode(p, newMode)
          \/ SnapshotStep(p)

SpecPollerFair ==
    /\ InitStale
    /\ [][NextPollerFair]_vars
    /\ WF_vars(PollerStep)

(* C14: no failed iteration ends or blocks the scheduler loop: under fair  *)
(* scheduling, if the mode stays AUTO from some point on and every         *)
(* Provider call returns, the poller publishes a snapshot event again and  *)
(* again and keeps publishing tick events.                                 *)
C14_PollerKeepsPublishing ==
    (<>[](mode = "AUTO")) =>
        /\ []<><<broadcastRegistrySend(Poller)>>_vars
        /\ []<><<broadcastTick>>_vars

\* The first tick of a new countdown after an iteration whose refresh
\* failed: the mode was AUTO throughout, the expiry is still the initial
\* one, and the channel of the client is full with the first ticks of the
\* countdown before.
C14_Witness ==
    /\ mode = "AUTO"
    /\ proc[1].pc = "idle"
    /\ proc[Poller].pc = "wait"
    /\ polls = MaxPolls
    /\ proc[Poller].streak = 1
    /\ remaining = autoRefreshTicks - 1
    /\ expiresAt = 1 + cacheTTL
    /\ \E c \in clients :
          /\ Len(queue[c]) = chanCap
          /\ queue[c][chanCap] = TickMsg(autoRefreshTicks - chanCap)

(***************************************************************************)
(* Properties of the backfill.                                             *)
(***************************************************************************)
\* The status-change events a client has not read yet.
StatusEvents(q) == {i \in 1 .. Len(q) : q[i].event = "status"}

(* C15 as claimed: after a successful refresh every keep item of the       *)
(* fetched list that had no record has the record Pending and the records  *)
(* that existed keep their value, and exactly one status-change event is   *)
(* published for each newly defaulted item and none for the others, also   *)
(* when several refreshes run concurrently. The backfill of one refresh    *)
(* does this; the first conjunct says that it still holds when the refresh *)
(* installs its list.                                                      *)
C15_BackfillDefaults ==
    /\ [](\A p \in Procs :
             proc[p].pc = "rf_swap" => KeepIDs(proc[p].fetched) \subseteq DOMAIN statuses)
    /\ [][\A p \in Procs :
             /\ (proc[p].pc = "rf_backfill" /\ proc'[p].pc # "rf_backfill") =>
                   /\ DOMAIN statuses' = DOMAIN statuses \cup KeepIDs(proc[p].fetched)
                   /\ \A id \in DOMAIN statuses' :
                         statuses'[id] = IF id \in DOMAIN statuses THEN statuses[id] ELSE "Pending"
                   /\ {it.id : it \in Range(proc'[p].pend)} = DOMAIN statuses' \ DOMAIN statuses
                   /\ Len(proc'[p].pend) = Cardinality(DOMAIN statuses' \ DOMAIN statuses)
                   /\ queue' = queue
             /\ (proc[p].pc = "rf_bcast" /\ proc'[p] # proc[p]) =>
                   /\ proc'[p].pend = Tail(proc[p].pend)
                   /\ queue' = Send(queue, clients,
                                    StatusMsg(Head(proc[p].pend).id, "Pending", Head(proc[p].pend).title))
             /\ (proc[p].pc \in {"rf_cleanup", "rf_swap"} /\ proc'[p] # proc[p]) =>
                   /\ queue' = queue
                   /\ proc[p].pend = <<>>]_vars

(***************************************************************************)
(* Status edits that name a note or a document, with registry reads that   *)
(* refresh the stale cache and note details that upsert beside them.       *)
(***************************************************************************)
NextKinds ==
    \E p \in Handlers :
        \/ \E id \in {"a", "d"} : handleStatus(p, id, "Complete")
        \/ handleStatusTitle(p)
        \/ handleStatusBroadcast(p)
        \/ handleRegistry(p, "")
        \/ handleRegistryRead(p)
        \/ handleRegistryReread(p)
        \/ handleRegistryEnrich(p)
        \/ handleRegistryWrite(p)
        \/ \E id \in {"a", "b"} : handleNoteDetail(p, id)
        \/ ensureStatusDefault(p)
        \/ ensureKeepNoteCached(p)
        \/ RefreshStep(p)
        \/ SnapshotStep(p)
        \/ BroadcastRegistryStep(p)

SpecKinds == InitStale /\ [][NextKinds]_vars

(***************************************************************************)
(* Properties of the kinds of items.                                       *)
(***************************************************************************)
\* The ids of the cached items that are not notes.
OtherIDs(items) == {it.id : it \in {x \in Range(items) : x.type # "keep"}}

(* C16 as claimed: only notes have a status record: in every reachable     *)
(* state no record exists for the id of a document or sheet of the cached  *)
(* list, whatever status edits, refreshes and upserts have run.            *)
C16_OnlyNotesHaveRecords == OtherIDs(cacheItems) \cap DOMAIN statuses = {}

\* The step in which process p decorates the list it has read.
Enriches(p) == proc[p].pc \in {"hr_enrich", "br_enrich"} /\ proc'[p] # proc[p]

(* C17 as claimed: decorating a list attaches to every keep item its       *)
(* recorded status, or Pending when it has none, leaves the status of      *)
(* every other item unset, changes nothing else of the items and changes   *)
(* neither the status table nor the cached list.                           *)
C17_EnrichDecoratesNotes ==
    [][\A p \in Procs : Enriches(p) =>
          LET given == proc[p].items
              res == proc'[p].items
          IN /\ Len(res) = Len(given)
             /\ \A i \in 1 .. Len(given) :
                   /\ res[i] = [given[i] EXCEPT !.status = res[i].status]
                   /\ res[i].status =
                         IF given[i].type # "keep" THEN ""
                         ELSE IF given[i].id \in DOMAIN statuses THEN statuses[given[i].id]
                         ELSE "Pending"
             /\ statuses' = statuses
             /\ cacheItems' = cacheItems]_vars

(***************************************************************************)
(* Properties of the registry endpoint.                                    *)
(***************************************************************************)
\* The step in which handler p, serving the registry, reads the cache.
ServesRegistry(p) == proc[p].pc = "hr_read" /\ proc'[p] # proc[p]

(* C18 as claimed: while the cache is fresh (now < expiresAt), serving the *)
(* registry does not call the Provider, whatever the cached list holds,    *)
(* the empty list included: the read of a fresh cache is never followed by *)
(* the listing call of a refresh.                                          *)
C18_FreshReadSkipsProvider ==
    [][\A p \in Handlers :
          (ServesRegistry(p) /\ now < expiresAt) => proc'[p].pc # "rf_list"]_vars

(* C19: a Provider failure during a registry read is not surfaced to the   *)
(* caller: the failing listing call leaves the cache and its expiry as     *)
(* they were and the handler goes on, it then reads what is cached,        *)
(* decorates it and answers 200 with the decorated list as the body.       *)
C19_FailureNotSurfaced ==
    [][\A p \in Handlers : proc[p].req.kind = "registry" =>
          /\ RefreshFails(p) =>
                /\ cacheItems' = cacheItems
                /\ expiresAt' = expiresAt
                /\ proc'[p].pc \in {"hr_read", "hr_read2", "br_read", "br_read2"}
                /\ proc'[p].final = 200
          /\ (proc[p].pc = "hr_read2" /\ proc'[p] # proc[p]) =>
                /\ proc'[p].pc = "hr_enrich"
                /\ proc'[p].items = cacheItems
          /\ (proc[p].pc = "hr_enrich" /\ proc'[p] # proc[p]) =>
                /\ proc'[p].pc = "hr_write"
                /\ proc'[p].items = enrichItems(proc[p].items)
          /\ (proc[p].pc = "hr_write" /\ proc'[p] # proc[p]) =>
                /\ proc'[p].pc = "done"
                /\ proc'[p].resp = 200]_vars

\* No refresh has succeeded since the cache expired: one registry read has
\* been answered 200 and another is about to answer with the decorated
\* stale list.
C19_Witness ==
    /\ now >= expiresAt
    /\ cacheItems # <<>>
    /\ \E p, q \in Handlers :
          /\ proc[p].pc = "done" /\ proc[p].req.kind = "registry" /\ proc[p].resp = 200
          /\ proc[q].pc = "hr_write" /\ proc[q].final = 200
          /\ proc[q].items = enrichItems(cacheItems)

(***************************************************************************)
(* The lock-level view: every function as the sequence of lock operations, *)
(* Provider calls (ws) and database writes (db) it runs, with its branches *)
(* as optional parts. sync.RWMutex: Lock waits until nobody holds the      *)
(* mutex, and from the moment it waits no new RLock is granted.            *)
(***************************************************************************)
Op(op, mu) == [op |-> op, mu |-> mu, body |-> <<>>]

wsCall == <<Op("ws", "")>>

dbCall == <<Op("db", "")>>

Locked(mu) == <<Op("Lock", mu), Op("Unlock", mu)>>

RLocked(mu) == <<Op("RLock", mu), Op("RUnlock", mu)>>

\* A part that is run or skipped: the body of a branch, or the rest of a
\* function after an early return.
Opt(body) == <<[op |-> "opt", mu |-> "", body |-> body]>>

\* A part that is run once per entry of a collection: the body of a range
\* loop, run any number of times.
Loop(body) == <<[op |-> "loop", mu |-> "", body |-> body]>>

cachedItemsFreshPath == RLocked("registryCache.mu")

getItemTitlePath == RLocked("registryCache.mu")

enrichItemsPath == RLocked("modeMu")

isManualModePath == RLocked("modeMu")

\* broadcastTick, broadcastStatusChange, broadcastAutomationEvent and the
\* loop of broadcastRegistry: the sends have a default branch and never wait.
broadcastPath == Locked("clientsMu")

\* triggerStateSnapshot with the database writes inside the read lock.
triggerStateSnapshotPathLocked ==
    <<Op("RLock", "modeMu")>> \o dbCall \o Loop(dbCall) \o <<Op("RUnlock", "modeMu")>>

\* The copy under the read lock, SetMode, then SetStatus for every entry.
triggerStateSnapshotPath == RLocked("modeMu") \o dbCall \o Loop(dbCall)

\* The new ids stored under the lock, then broadcastStatusChange for every
\* one of them.
backfillKeepStatusesPath == Locked("modeMu") \o Loop(broadcastPath)

cleanupStaleStatusesPath == Locked("modeMu")

refreshRegistryCachePath ==
    wsCall \o Opt(backfillKeepStatusesPath \o cleanupStaleStatusesPath
                  \o Locked("registryCache.mu") \o Opt(triggerStateSnapshotPath))

broadcastRegistryPath ==
    cachedItemsFreshPath \o Opt(refreshRegistryCachePath \o cachedItemsFreshPath)
        \o enrichItemsPath \o broadcastPath

ensureStatusDefaultPath == Locked("modeMu")

ensureKeepNoteCachedPath ==
    ensureStatusDefaultPath \o Locked("registryCache.mu") \o Opt(triggerStateSnapshotPath)

handleStatusPath ==
    Opt(Locked("modeMu") \o getItemTitlePath \o Opt(broadcastPath)
        \o triggerStateSnapshotPath \o broadcastRegistryPath)

handleModePath == Locked("modeMu") \o Opt(triggerStateSnapshotPath)

handleDeletePath ==
    Opt(RLocked("modeMu")
        \o Opt(wsCall \o Opt(refreshRegistryCachePath \o broadcastRegistryPath)))

handleNoteDetailPath ==
    Opt(wsCall \o Opt(ensureKeepNoteCachedPath \o Opt(broadcastRegistryPath)))

handleRegistryPath ==
    isManualModePath \o Opt(refreshRegistryCachePath \o broadcastRegistryPath)
        \o cachedItemsFreshPath \o Opt(refreshRegistryCachePath \o cachedItemsFreshPath)
        \o enrichItemsPath

\* Registration, then the deregistration of the deferred function.
handleEventsPath == Locked("clientsMu") \o Locked("clientsMu")

sendInitialRegistrySnapshotPath ==
    cachedItemsFreshPath \o Opt(refreshRegistryCachePath \o cachedItemsFreshPath)
        \o Opt(enrichItemsPath)

\* One iteration of the poller's loop.
runPollerPath ==
    RLocked("modeMu")
        \o Opt(broadcastPath \o Opt(refreshRegistryCachePath \o broadcastRegistryPath))

statusForKeepPath == ensureStatusDefaultPath \o Opt(triggerStateSnapshotPath)

handleGetRegistryContentPath ==
    Opt(wsCall \o Opt(ensureKeepNoteCachedPath \o Opt(broadcastRegistryPath) \o statusForKeepPath))

\* A method other than POST is answered 405 before the mode is read.
handleAutomationTaskPath == Opt(isManualModePath \o Opt(broadcastPath))

\* handleDeleteSheet and handleDeleteDoc; outside MANUAL the refresh and the
\* broadcast run in a goroutine of their own.
handleDeleteFilePath ==
    Opt(wsCall \o Opt(isManualModePath \o refreshRegistryCachePath \o broadcastRegistryPath))

HandlerPaths ==
    {handleStatusPath, handleModePath, handleDeletePath, handleNoteDetailPath, handleRegistryPath,
     handleGetRegistryContentPath, handleAutomationTaskPath, handleDeleteFilePath}

SubscriberPaths == {handleEventsPath, sendInitialRegistrySnapshotPath}

Running(p) == proc[p].pc = "lk_run"

Holders(mu) == {p \in Procs : \E m \in {"r", "w"} : <<mu, m>> \in proc[p].held}

Writers(mu) == {p \in Procs : <<mu, "w">> \in proc[p].held}

\* The processes that have called Lock on mu and wait for it.
Waiting(mu) ==
    {p \in Procs : Running(p) /\ Head(proc[p].path).op = "LockWait" /\ Head(proc[p].path).mu = mu}

\* The next operation of p does not have to wait.
CanStep(p) ==
    /\ Running(p)
    /\ LET o == Head(proc[p].path) IN
          CASE o.op = "LockWait" -> Holders(o.mu) = {}
            [] o.op = "RLock" -> Writers(o.mu) = {} /\ Waiting(o.mu) = {}
            [] OTHER -> TRUE

\* A request arrives and its handler starts.
lockStart(p) ==
    /\ proc[p].pc = "idle"
    /\ \E path \in (IF p \in 1 .. NumEditors THEN HandlerPaths ELSE SubscriberPaths) :
          proc' = [proc EXCEPT ![p] = [@ EXCEPT !.pc = "lk_run", !.path = path]]
    /\ UNCHANGED <<mode, statuses, cacheItems, expiresAt, clients, queue, conn, db, disk, logged, cycled, now, remaining, polls, wsDeleted, wsListed>>

\* The ticker fires and the poller runs one iteration.
lockTick ==
    /\ proc[Poller].pc = "wait"
    /\ proc' = [proc EXCEPT ![Poller] = [@ EXCEPT !.pc = "lk_run", !.path = runPollerPath]]
    /\ UNCHANGED <<mode, statuses, cacheItems, expiresAt, clients, queue, conn, db, disk, logged, cycled, now, remaining, polls, wsDeleted, wsListed>>

\* Process p with rest as what it has still to run: a handler with nothing
\* left has answered, the poller is back at the ticker.
Continue(p, rest) ==
    IF rest # <<>> THEN [proc[p] EXCEPT !.path = rest]
    ELSE IF p = Poller THEN [proc[p] EXCEPT !.path = <<>>, !.pc = "wait"]
    ELSE [Finished(proc[p], 200) EXCEPT !.held = proc[p].held]

\* Process p runs the next operation of its path.
lockStep(p) ==
    /\ CanStep(p)
    /\ LET o == Head(proc[p].path)
           rest == Tail(proc[p].path)
       IN CASE o.op = "opt" ->
                 \E taken \in BOOLEAN :
                    proc' = [proc EXCEPT ![p] = Continue(p, IF taken THEN o.body \o rest ELSE rest)]
            [] o.op = "loop" ->
                 \E again \in BOOLEAN :
                    proc' = [proc EXCEPT ![p] =
                       Continue(p, IF again THEN o.body \o <<o>> \o rest ELSE rest)]
            [] o.op = "Lock" ->
                 proc' = [proc EXCEPT ![p] =
                    IF Holders(o.mu) = {}
                    THEN [Continue(p, rest) EXCEPT !.held = @ \cup {<<o.mu, "w">>}]
                    ELSE [@ EXCEPT !.path = <<Op("LockWait", o.mu)>> \o rest]]
            [] o.op = "LockWait" ->
                 proc' = [proc EXCEPT ![p] = [Continue(p, rest) EXCEPT !.held = @ \cup {<<o.mu, "w">>}]]
            [] o.op = "RLock" ->
                 proc' = [proc EXCEPT ![p] = [Continue(p, rest) EXCEPT !.held = @ \cup {<<o.mu, "r">>}]]
            [] o.op = "Unlock" ->
                 proc' = [proc EXCEPT ![p] = [Continue(p, rest) EXCEPT !.held = @ \ {<<o.mu, "w">>}]]
            [] o.op = "RUnlock" ->
                 proc' = [proc EXCEPT ![p] = [Continue(p, rest) EXCEPT !.held = @ \ {<<o.mu, "r">>}]]
            [] OTHER ->
                 proc' = [proc EXCEPT ![p] = Continue(p, rest)]
    /\ UNCHANGED <<mode, statuses, cacheItems, expiresAt, clients, queue, conn, db, disk, logged, cycled, now, remaining, polls, wsDeleted, wsListed>>

NextLocks ==
    \/ lockTick
    \/ \E p \in Handlers : lockStart(p)
    \/ \E p \in Handlers \cup {Poller} : lockStep(p)

SpecLocks == InitWarm /\ [][NextLocks]_vars

(***************************************************************************)
(* Properties of the locks.                                                *)
(***************************************************************************)
(* C20: no process ever holds more than one of the three locks, none holds *)
(* a lock while it calls the Provider or writes to the database or after   *)
(* it has run to its end, and the locks never deadlock: whenever some      *)
(* process is inside a path, some process can take its next step.          *)
C20_LockDiscipline ==
    /\ \A p \in Procs :
          /\ Cardinality(proc[p].held) <= 1
          /\ (Running(p) /\ Head(proc[p].path).op \in {"ws", "db"}) => proc[p].held = {}
          /\ ~Running(p) => proc[p].held = {}
    /\ \A mu \in {"registryCache.mu", "modeMu", "clientsMu"} :
          Writers(mu) # {} => Cardinality(Holders(mu)) = 1
    /\ (\E p \in Procs : Running(p)) => (\E p \in Procs : CanStep(p))

\* Contention: one process holds the mode lock for reading, a second has
\* called Lock on it and waits, and a third is held back by that waiting
\* writer while it is about to read-lock.
C20_Witness ==
    \E p, q, r \in Procs :
        /\ proc[p].held = {<<"modeMu", "r">>}
        /\ q \in Waiting("modeMu")
        /\ Running(r) /\ Head(proc[r].path).op = "RLock" /\ Head(proc[r].path).mu = "modeMu"
        /\ ~CanStep(r)

(***************************************************************************)
(* Automation requests in either mode, with mode changes beside them and a *)
(* client that reads.                                                      *)
(***************************************************************************)
NextAutomation ==
    \/ handleEventsDeliver(1)
    \/ \E p \in Handlers :
          \/ \E method \in {"POST", "GET"}, decodes \in BOOLEAN, task \in TaskInputs :
                handleAutomationTask(p, method, decodes, task)
          \/ handleAutomationDispatch(p)
          \/ handleAutomationBroadcast(p)
          \/ \E newMode \in {"AUTO", "MANUAL"} : handleMode(p, newMode)
          \/ SnapshotStep(p)

SpecAutomation == InitStale /\ [][NextAutomation]_vars

(***************************************************************************)
(* Properties of the automation endpoint.                                  *)
(***************************************************************************)
\* The step in which handler p receives an automation request.
AutomationArrives(p) == proc[p].pc = "idle" /\ proc'[p].req.kind = "automation"

\* The automation events a client has not read yet.
AutomationEvents(q) == {i \in 1 .. Len(q) : q[i].event = "automation"}

(* C21: an automation request that arrives while the mode is not MANUAL,   *)
(* or whose task is empty or only whitespace, is rejected with an error:   *)
(* the executor is not invoked and no event is published.                  *)
C21_DispatchRejected ==
    /\ [][\A p \in Handlers :
             (AutomationArrives(p) /\ (mode # "MANUAL" \/ proc'[p].req.arg = "")) =>
                /\ proc'[p].pc = "done"
                /\ proc'[p].resp \in {400, 403, 405}
                /\ proc'[p].launched = <<>>
                /\ queue' = queue]_vars
    /\ [](\A p \in Handlers :
             (proc[p].req.kind = "automation" /\ proc[p].resp \in {400, 403, 405}) =>
                proc[p].launched = <<>>)

\* A request with a task has been refused because the mode was AUTO, and
\* the mode has been set to MANUAL since; nothing was launched or published.
C21_Witness ==
    /\ mode = "MANUAL"
    /\ \E p \in Handlers :
          /\ proc[p].pc = "done" /\ proc[p].req.kind = "automation"
          /\ proc[p].resp = 403 /\ proc[p].req.arg = "run" /\ proc[p].launched = <<>>
    /\ \A c \in clients : queue[c] = <<>>

(* C22: an automation request that passes the checks invokes the executor  *)
(* exactly once, with the trimmed task, and then publishes exactly one     *)
(* automation event: when the launch failed the event has state error and  *)
(* the failure message and the caller gets 500, otherwise the event has    *)
(* state started and the caller gets 202.                                  *)
C22_DispatchOnceAndReport ==
    /\ [][\A p \in Handlers :
             /\ (proc[p].pc = "ha_dispatch" /\ proc'[p] # proc[p]) =>
                   /\ proc'[p].launched = <<proc[p].req.arg>>
                   /\ proc'[p].pc = "ha_bcast"
                   /\ proc'[p].final \in {202, 500}
                   /\ queue' = queue
             /\ (proc[p].pc = "ha_bcast" /\ proc'[p] # proc[p]) =>
                   /\ proc'[p].pc = "done"
                   /\ proc'[p].resp = proc[p].final
                   /\ proc'[p].launched = proc[p].launched
                   /\ queue' = Send(queue, clients,
                         IF proc[p].final = 500
                         THEN SSEMessage("automation",
                                 [state |-> "error", task |-> proc[p].req.arg,
                                  error |-> "failed to launch copilot"])
                         ELSE SSEMessage("automation",
                                 [state |-> "started", task |-> proc[p].req.arg]))]_vars
    /\ [][(\E c \in clients :
             Cardinality(AutomationEvents(queue'[c])) > Cardinality(AutomationEvents(queue[c])))
          => \E p \in Handlers : proc[p].pc = "ha_bcast" /\ proc'[p].pc = "done"]_vars
    /\ [](\A p \in Handlers :
             (proc[p].pc = "done" /\ proc[p].req.kind = "automation" /\ proc[p].resp \in {202, 500}) =>
                /\ proc[p].req.arg \in {TrimSpace(t) : t \in TaskInputs} \ {""}
                /\ proc[p].launched = <<proc[p].req.arg>>)

\* A launch has failed: the caller got 500, the executor was invoked once
\* with the trimmed task and the error event is the last one queued.
C22_Witness ==
    \E p \in Handlers :
        /\ proc[p].pc = "done" /\ proc[p].req.kind = "automation"
        /\ proc[p].resp = 500
        /\ proc[p].launched = <<"run">>
        /\ \E c \in clients :
              /\ queue[c] # <<>>
              /\ queue[c][Len(queue[c])] = AutomationMsg("error", "run", "failed to launch copilot")

(***************************************************************************)
(* Properties of the mode endpoint.                                        *)
(***************************************************************************)
\* The step in which handler p receives a mode request.
ModeArrives(p) == proc[p].pc = "idle" /\ proc'[p].req.kind = "mode"

\* What a mode request does on arrival: without a new mode it answers 200
\* with the current mode, with an unknown mode it answers 400, and in both
\* cases mode and database stay as they are; AUTO or MANUAL is stored.
ModeEndpoint ==
    [][\A p \in Handlers : ModeArrives(p) =>
          IF proc'[p].req.arg = ""
          THEN /\ proc'[p].pc = "done" /\ proc'[p].resp = 200
               /\ proc'[p].body = mode
               /\ mode' = mode /\ db' = db /\ statuses' = statuses
          ELSE IF proc'[p].req.arg \notin {"AUTO", "MANUAL"}
          THEN /\ proc'[p].pc = "done" /\ proc'[p].resp = 400
               /\ mode' = mode /\ db' = db /\ statuses' = statuses
          ELSE /\ mode' = proc'[p].req.arg
               /\ proc'[p].pc # "done"]_vars

(* C23 as claimed: a mode request without a new mode returns the current   *)
(* mode and changes nothing, one with an unknown mode is rejected and      *)
(* changes nothing, and one that sets AUTO or MANUAL has updated the mode  *)
(* and written that mode to the database when it returns.                  *)
C23_ModeWrittenBeforeReturn ==
    /\ ModeEndpoint
    /\ [](\A p \in Handlers :
             (Returned200(p) /\ proc[p].req.kind = "mode" /\ proc[p].req.arg # "") =>
                proc[p].updated /\ proc[p].wrote = proc[p].req.arg)

(* C23 amended: as claimed for the requests without a new mode or with an  *)
(* unknown one; a request that sets AUTO or MANUAL has, when it returns,   *)
(* updated the mode, then copied it (its own mode, unless a concurrent     *)
(* mode change had replaced it) and either written the copied mode to the  *)
(* database or called the write and got an error from the database, which  *)
(* then holds the mode it held.                                            *)
C23_ModeFlushedBeforeReturn ==
    /\ ModeEndpoint
    /\ [](\A p \in Handlers :
             (Returned200(p) /\ proc[p].req.kind = "mode" /\ proc[p].req.arg # "") =>
                /\ proc[p].updated
                /\ proc[p].body = proc[p].req.arg
                /\ IF "mode" \in proc[p].failed THEN proc[p].wrote = ""
                   ELSE proc[p].wrote = proc[p].seen
                /\ \/ proc[p].seen = proc[p].req.arg
                   \/ \E q \in Handlers \ {p} :
                         /\ proc[q].req.kind = "mode" /\ proc[q].updated
                         /\ proc[q].req.arg = proc[p].seen)
    /\ [][\A p \in Handlers :
             (proc[p].req.kind = "mode" /\ proc[p].pc = "ss_mode" /\ proc'[p] # proc[p]) =>
                IF "mode" \in proc'[p].failed THEN db' = db
                ELSE GetMode(db') = proc[p].seen]_vars

\* A mode change has returned 200 after writing the mode of a concurrent
\* mode change, not its own.
C23_Witness ==
    \E p \in Handlers :
        /\ Returned200(p) /\ proc[p].req.kind = "mode"
        /\ proc[p].req.arg \in {"AUTO", "MANUAL"}
        /\ proc[p].wrote \in {"AUTO", "MANUAL"} \ {proc[p].req.arg}

\* A mode change has returned 200 although the write of the mode failed:
\* the memory holds the new mode, the database the old one.
ModeWriteFailed ==
    \E p \in Handlers :
        /\ Returned200(p) /\ proc[p].req.kind = "mode" /\ proc[p].req.arg = "MANUAL"
        /\ "mode" \in proc[p].failed /\ proc[p].wrote = ""
        /\ mode = "MANUAL" /\ GetMode(db) = "AUTO"

(***************************************************************************)
(* Startup in a directory that may hold a legacy state file: the program   *)
(* starts, serves status edits, stops and starts again.                    *)
(***************************************************************************)
LegacyFile(parses, m, st) == [present |-> TRUE, parses |-> parses, mode |-> m, statuses |-> st]

LegacyInputs ==
    {NoFile,
     LegacyFile(TRUE, "MANUAL", [x \in {"a", "x"} |-> IF x = "a" THEN "Keep" ELSE "Bogus"]),
     LegacyFile(TRUE, "", [x \in {"a", "x"} |-> IF x = "a" THEN "Complete" ELSE "Delete"]),
     LegacyFile(TRUE, "AUTO", [x \in {"x"} |-> "review"]),
     LegacyFile(TRUE, "MANUAL", EmptyMap),
     LegacyFile(TRUE, "manual", EmptyMap),
     LegacyFile(FALSE, "MANUAL", [x \in {"a"} |-> "Keep"]),
     LegacyFile(FALSE, "", EmptyMap)}

DBInputs ==
    {[mode |-> "AUTO", statuses |-> EmptyMap],
     [mode |-> "AUTO", statuses |-> [x \in {"a", "b"} |-> IF x = "a" THEN "Review" ELSE "Blocked"]]}

InitStartup ==
    /\ db \in DBInputs
    /\ disk \in {[legacy |-> f, backup |-> NoFile] : f \in LegacyInputs}
    /\ logged = {}
    /\ cycled = NoCycle
    /\ mode = "AUTO"
    /\ statuses = EmptyMap
    /\ cacheItems = <<>>
    /\ expiresAt = 0
    /\ clients = {}
    /\ queue = [c \in Chans |-> <<>>]
    /\ conn = [c \in Chans |-> "free"]
    /\ now = 1
    /\ remaining = autoRefreshTicks
    /\ polls = 0
    /\ wsDeleted = {}
    /\ wsListed = cacheItems
    /\ proc = [p \in Procs |-> [IdleProc EXCEPT !.pc = "off"]]

\* The start and the first status edits after it.  The list is empty until
\* the edit's own broadcastRegistry has refreshed it, so getItemTitle finds
\* no title and the edit sends no status event.
NextStartup ==
    \/ NewServer
    \/ \E p \in 1 .. NumEditors :
          \/ \E id \in {"a"}, status \in {"Invalid", "Complete"} : handleStatus(p, id, status)
          \/ handleStatusTitle(p)
          \/ SnapshotStep(p)
          \/ broadcastRegistryRead(p)
          \/ broadcastRegistryReread(p)
          \/ broadcastRegistryEnrich(p)
          \/ broadcastRegistrySend(p)
          \/ RefreshStep(p)

SpecStartup == InitStartup /\ [][NextStartup]_vars

\* The step is a start of the program.
Starts == proc # proc' /\ \A p \in Procs : proc'[p].pc \in {"idle", "wait"}

\* The step is a start of the program that migrates the legacy file: the
\* file is there, is read and parses.
Migrates ==
    /\ Starts /\ disk.legacy.present /\ disk.legacy.parses
    /\ Fail("ReadFile", "") \notin logged'

\* The start of this step has loaded mode and statuses from the database,
\* each unless its read returned an error, in which case the default of
\* NewServer stays.
LoadsFromStore ==
    /\ mode' = IF Fail("GetMode", "") \in logged' THEN "AUTO" ELSE GetMode(db')
    /\ statuses' = IF Fail("GetStatuses", "") \in logged' THEN EmptyMap ELSE GetStatuses(db')

(* C24: a start that migrates a legacy file writes, for every id of the    *)
(* file, a durable status among the seven recognized values: the file's    *)
(* value if it is recognized, Pending otherwise (Keep and Delete           *)
(* included); a non-empty mode of the file is written as the durable mode, *)
(* and the records of other ids stay. A write for which the database       *)
(* returns an error is logged and leaves that key as it was.               *)
C24_MigrationNormalizes ==
    [][Migrates =>
          LET ps == disk.legacy IN
          /\ \A id \in DOMAIN ps.statuses :
                IF Fail("SetStatus", id) \in logged'
                THEN /\ id \in DOMAIN GetStatuses(db') <=> id \in DOMAIN GetStatuses(db)
                     /\ id \in DOMAIN GetStatuses(db) => GetStatuses(db')[id] = GetStatuses(db)[id]
                ELSE /\ id \in DOMAIN GetStatuses(db')
                     /\ GetStatuses(db')[id] \in allowedStatuses
                     /\ GetStatuses(db')[id] =
                           IF ps.statuses[id] \in allowedStatuses THEN ps.statuses[id] ELSE "Pending"
          /\ \A id \in DOMAIN GetStatuses(db) \ DOMAIN ps.statuses :
                id \in DOMAIN GetStatuses(db') /\ GetStatuses(db')[id] = GetStatuses(db)[id]
          /\ DOMAIN GetStatuses(db') \subseteq DOMAIN GetStatuses(db) \cup DOMAIN ps.statuses
          /\ GetMode(db') = IF ps.mode # "" /\ Fail("SetMode", "") \notin logged'
                            THEN ps.mode ELSE GetMode(db)
          /\ LoadsFromStore]_vars

\* The program has started, no operation failing, on the legacy file
\* {MANUAL, a: Keep, x: Bogus} over a database that held a and b: a and x
\* are Pending, b is kept and the mode is MANUAL.
C24_Witness ==
    /\ disk.backup.present /\ ~disk.legacy.present
    /\ logged = {}
    /\ disk.backup.mode = "MANUAL"
    /\ DOMAIN disk.backup.statuses = {"a", "x"}
    /\ disk.backup.statuses["a"] = "Keep" /\ disk.backup.statuses["x"] = "Bogus"
    /\ \A p \in Handlers : proc[p].pc = "idle"
    /\ GetMode(db) = "MANUAL" /\ mode = "MANUAL"
    /\ DOMAIN GetStatuses(db) = {"a", "b", "x"}
    /\ GetStatuses(db)["a"] = "Pending" /\ GetStatuses(db)["x"] = "Pending"
    /\ GetStatuses(db)["b"] = "Blocked"
    /\ statuses = GetStatuses(db)

\* A start that migrates and whose rename succeeds leaves no file under the
\* legacy name and the file's content under the backup name; no step
\* creates a legacy file; a start without the legacy file leaves database
\* and files as they are and loads from the database.
MigratesOnceWhenRenamed ==
    /\ [][(Migrates /\ Fail("Rename", "") \notin logged') =>
             (~disk'.legacy.present /\ disk'.backup = disk.legacy)]_vars
    /\ [][~disk.legacy.present => ~disk'.legacy.present]_vars
    /\ [][(Starts /\ ~disk.legacy.present) =>
             (db' = db /\ disk' = disk /\ LoadsFromStore)]_vars

(* C25 as claimed: migration runs at most once. A start that migrates      *)
(* leaves no file under the legacy name; no step creates one; and a start  *)
(* that follows a migration migrates nothing: it leaves the database as    *)
(* the running program last wrote it and leaves the files as they are.     *)
C25_MigratesOnce ==
    /\ [][Migrates => ~disk'.legacy.present]_vars
    /\ [][~disk.legacy.present => ~disk'.legacy.present]_vars
    /\ [][(Starts /\ (disk.backup.present \/ Fail("Rename", "") \in logged)) =>
             (db' = db /\ disk' = disk)]_vars

(* C26: a start that finds a legacy file it cannot parse writes nothing to *)
(* the database, leaves the legacy file in place without a backup, and     *)
(* loads mode and statuses from the database (each unless its read returns *)
(* an error).                                                              *)
C26_CorruptFileAbandoned ==
    [][(Starts /\ disk.legacy.present /\ ~disk.legacy.parses) =>
          /\ db' = db
          /\ disk' = disk
          /\ LoadsFromStore]_vars

\* The program has started next to an unparseable legacy file that names
\* mode MANUAL: the parse error is logged, the file is still there, there
\* is no backup, and mode and statuses are those of the database.
C26_Witness ==
    /\ disk.legacy.present /\ ~disk.legacy.parses /\ disk.legacy.mode = "MANUAL"
    /\ ~disk.backup.present
    /\ logged = {Fail("Unmarshal", "")}
    /\ \A p \in Handlers : proc[p].pc = "idle"
    /\ proc[Poller].pc = "wait"
    /\ mode = "AUTO" /\ GetMode(db) = "AUTO"
    /\ statuses = GetStatuses(db) /\ DOMAIN statuses = {"a", "b"}

(***************************************************************************)
(* Status edits and mode changes on a database whose writes may fail.      *)
(***************************************************************************)
NextFailingWrites ==
    \E p \in Handlers :
        \/ \E status \in {"Complete", "Execute"} : handleStatus(p, "a", status)
        \/ handleStatusTitle(p)
        \/ handleStatusBroadcast(p)
        \/ handleMode(p, "MANUAL")
        \/ SnapshotStep(p)
        \/ broadcastRegistryRead(p)
        \/ broadcastRegistryEnrich(p)
        \/ broadcastRegistrySend(p)

SpecFailingWrites == InitWarm /\ [][NextFailingWrites]_vars

\* A step of p's flush that leaves the database as it was: the write has
\* returned an error (or has stored the value that was there).
WriteFails(p) ==
    /\ proc[p].pc \in {"ss_mode", "ss_status"}
    /\ proc'[p] # proc[p]
    /\ db' = db

(* C27: a database write that fails changes neither the memory nor the     *)
(* database, and the request goes on as after a write that succeeded; a    *)
(* status edit or mode change that was accepted returns 200 whether or     *)
(* not its writes failed, and the value it put in memory is still there    *)
(* unless the other request has replaced it.                               *)
C27_FailedWriteStillSucceeds ==
    /\ [][\A p \in Handlers : WriteFails(p) =>
             /\ mode' = mode /\ statuses' = statuses /\ db' = db
             /\ proc'[p].pc = "done" => proc'[p].resp = 200
             /\ proc'[p].pc \in {"done", "ss_status", "br_read"}]_vars
    /\ [](\A p \in Handlers :
             (proc[p].pc = "done" /\ proc[p].updated) =>
                /\ proc[p].resp = 200
                /\ (proc[p].req.kind = "mode" /\ \A q \in Handlers \ {p} : proc[q].req.kind # "mode")
                      => mode = proc[p].req.arg
                /\ (proc[p].req.kind = "status" /\ \A q \in Handlers \ {p} : proc[q].req.kind # "status")
                      => (proc[p].req.id \in DOMAIN statuses
                          /\ statuses[proc[p].req.id] = proc[p].req.arg))

\* A status edit and a mode change have returned 200 although the write of
\* the edited record and the write of the mode failed: the memory holds the
\* new values, the database the old ones.
C27_Witness ==
    \E p, q \in Handlers :
        /\ Returned200(p) /\ proc[p].req.kind = "status" /\ proc[p].req.id \in proc[p].failed
        /\ Returned200(q) /\ proc[q].req.kind = "mode" /\ "mode" \in proc[q].failed
        /\ proc[p].wrote = "" /\ proc[q].wrote = ""
        /\ statuses[proc[p].req.id] = proc[p].req.arg
        /\ GetStatuses(db)[proc[p].req.id] = "Pending"
        /\ mode = "MANUAL" /\ GetMode(db) = "AUTO"

\* Handlers p and q have both returned from accepted status edits of
\* different ids.
BothEdited(p, q) ==
    /\ p # q
    /\ Returned200(p) /\ AcceptedEdit(p)
    /\ Returned200(q) /\ AcceptedEdit(q)
    /\ proc[p].req.id # proc[q].req.id

\* The handlers whose status edit was accepted, and the ids they edited.
Editors == {p \in Handlers : AcceptedEdit(p)}

EditedIDs == {proc[p].req.id : p \in Editors}

(* C28: when concurrent status edits of pairwise different ids have all    *)
(* returned, the status table holds for each edited id the status its      *)
(* caller set, next to the records it held before.                         *)
C28_DistinctEditsKept ==
    (/\ \A p \in Editors : Returned200(p)
     /\ \A p, q \in Editors : p # q => proc[p].req.id # proc[q].req.id)
    => /\ \A p \in Editors :
             /\ proc[p].req.id \in DOMAIN statuses
             /\ statuses[proc[p].req.id] = proc[p].req.arg
       /\ DOMAIN statuses = {"a", "b"} \cup EditedIDs
       /\ \A id \in DOMAIN statuses \ EditedIDs : statuses[id] = "Pending"

\* Edits of a and of b have both returned and the table holds both values.
C28_Witness ==
    \E p, q \in Handlers :
        /\ BothEdited(p, q)
        /\ proc[p].req.id = "a" /\ proc[p].req.arg = "Complete"
        /\ proc[q].req.id = "b" /\ proc[q].req.arg = "Execute"
        /\ statuses["a"] = "Complete" /\ statuses["b"] = "Execute"
        /\ proc[p].seen = "Complete" /\ proc[q].seen = "Execute"

(***************************************************************************)
(* Properties of the subscriber set.                                       *)
(***************************************************************************)
\* The step in which the connection of channel c is cancelled: its handler
\* leaves the loop and takes the channel out of the subscriber set.
Cancelled(c) == conn[c] = "open" /\ conn'[c] # "open"

\* The step in which the initial-snapshot sender of channel c sends.
OwnSenderSends(c) == proc[Sender(c)].pc = "si_send" /\ proc'[Sender(c)].pc = "done"

(* C29: the cancellation of a connection takes its channel out of the      *)
(* subscriber set; the channel is then closed and what it holds is         *)
(* dropped; from the removal on no publish enqueues to it (only the        *)
(* connection's own initial snapshot may still arrive before the close);   *)
(* and a channel is in the subscriber set exactly while its connection is  *)
(* open, from its registration to that removal.                            *)
C29_SubscriberLifetime ==
    /\ [][\A c \in Chans : Cancelled(c) => (conn'[c] = "unregistered" /\ c \notin clients')]_vars
    /\ [][\A c \in Chans : conn[c] = "unregistered" =>
             /\ conn'[c] \in {"unregistered", "closed"} /\ c \notin clients'
             /\ conn'[c] = "closed" => queue'[c] = <<>>
             /\ (conn'[c] = "unregistered" /\ queue'[c] # queue[c]) => OwnSenderSends(c)]_vars
    /\ [][\A c \in Chans : conn[c] = "closed" =>
             (conn'[c] = "closed" /\ c \notin clients' /\ queue'[c] = <<>>)]_vars
    /\ [][\A c \in Chans : (conn[c] = "free" /\ conn'[c] # "free") =>
             (conn'[c] = "open" /\ c \in clients')]_vars
    /\ [](\A c \in Chans : c \in clients <=> conn[c] = "open")

\* Channel 1 has been cancelled with unread messages and closed, and the
\* poller has published since: the channel is out of the set and holds
\* nothing, while the other subscriber has the tick.
C29_Witness ==
    /\ conn[1] = "closed" /\ 1 \notin clients /\ queue[1] = <<>>
    /\ polls > Backlog
    /\ \E c \in clients : TickEvents(queue[c]) # {}

(***************************************************************************)
(* Properties of the single-item upsert.                                   *)
(***************************************************************************)
\* The step in which p runs the cache section of ensureKeepNoteCached.
Upserts(p) == proc[p].pc = "ek_upsert" /\ proc'[p].pc # "ek_upsert" /\ proc'[p].pc # "crashed"

\* The positions of id in a list of items.
Positions(items, id) == {i \in 1 .. Len(items) : items[i].id = id}

\* The upsert inserts an item whose id is not cached at the end and replaces
\* a cached one where it is; the id then occurs once, the other entries are
\* as before, and the expiry is renewed.
UpsertInPlace ==
    [][\A p \in Handlers : Upserts(p) =>
          LET id == proc[p].req.id IN
          /\ Len(cacheItems') = IF Positions(cacheItems, id) = {} THEN Len(cacheItems) + 1
                                ELSE Len(cacheItems)
          /\ Cardinality(Positions(cacheItems', id)) = 1
          /\ Positions(cacheItems, id) # {} => Positions(cacheItems', id) = Positions(cacheItems, id)
          /\ \A i \in 1 .. Len(cacheItems) : cacheItems[i].id # id => cacheItems'[i] = cacheItems[i]
          /\ \A i \in Positions(cacheItems', id) :
                /\ cacheItems'[i].type = "keep"
                /\ cacheItems'[i].status = proc[p].req.arg
          /\ expiresAt' = now + cacheTTL]_vars

\* An upsert that follows the creation of the status record goes on to
\* triggerStateSnapshot, with Pending as the status of the item it cached.
UpsertFlushes ==
    [][\A p \in Handlers : (Upserts(p) /\ proc[p].needs) =>
          /\ proc'[p].pc = "ss_copy"
          /\ proc[p].req.arg = "Pending"]_vars

\* A note-detail request that created the status record of its note has,
\* when it returns, sent a status-change event for the id to the subscriber.
UpsertPublishesStatus ==
    \A p \in Handlers :
        (proc[p].pc = "done" /\ proc[p].req.kind = "detail" /\ proc[p].updated) =>
            \E i \in StatusEvents(queue[1]) : queue[1][i].data.id = proc[p].req.id

(* C30 as claimed: a single-item upsert inserts the item if its id is not  *)
(* cached and otherwise replaces the entry in place, never leaving two     *)
(* entries with the id and leaving the others unchanged; and when it       *)
(* creates the missing status record it triggers the durable write of the  *)
(* table and has, when the request returns, published a status-change      *)
(* event for the id, as a refresh does for an item it defaults.            *)
C30_UpsertAsRefresh ==
    /\ UpsertInPlace
    /\ UpsertFlushes
    /\ []UpsertPublishesStatus

(***************************************************************************)
(* Content requests (ensureKeepNoteCached, then statusForKeep) next to a   *)
(* registry read whose refresh reconciles the status table.                *)
(***************************************************************************)
NextContent ==
    \/ \E id \in ContentIdInputs : handleGetRegistryContent(1, id)
    \/ ensureStatusDefault(1)
    \/ ensureKeepNoteCached(1)
    \/ statusForKeep(1)
    \/ handleRegistry(2, "")
    \/ handleRegistryRead(2)
    \/ handleRegistryReread(2)
    \/ handleRegistryEnrich(2)
    \/ handleRegistryWrite(2)
    \/ \E p \in Handlers :
          \/ RefreshStep(p)
          \/ SnapshotStep(p)
          \/ BroadcastRegistryStep(p)

\* The cache holds note a only and has just expired.
InitOneNoteStale ==
    /\ db = [mode |-> "AUTO", statuses |-> Backfilled(EmptyMap, <<itemA>>)]
    /\ disk = NoLegacy
    /\ logged = {}
    /\ cycled = NoCycle
    /\ mode = "AUTO"
    /\ statuses = Backfilled(EmptyMap, <<itemA>>)
    /\ cacheItems = <<itemA>>
    /\ expiresAt = 1 + cacheTTL
    /\ now = expiresAt
    /\ clients = {1}
    /\ queue = [c \in Chans |-> <<>>]
    /\ conn = [c \in Chans |-> IF c = 1 THEN "open" ELSE "free"]
    /\ remaining = autoRefreshTicks
    /\ polls = 0
    /\ wsDeleted = {}
    /\ wsListed = cacheItems
    /\ proc = [p \in Procs |-> IF p = Poller THEN [IdleProc EXCEPT !.pc = "wait"]
                 ELSE IF p = Sender(1) THEN Finished(IdleProc, 0) ELSE IdleProc]

SpecContent == InitOneNoteStale /\ [][NextContent]_vars

\* The step in which p reads the status of its id with ensureStatusDefault,
\* inside ensureKeepNoteCached or inside statusForKeep.
ReadsStatus(p) ==
    /\ proc[p].pc \in {"ek_default", "sk_default"}
    /\ proc'[p].pc \notin {proc[p].pc, "crashed"}

(* C31: reading the status of an id with a record returns the recorded     *)
(* status and changes neither the table nor the database; reading one      *)
(* without a record returns Pending and stores the record Pending. The     *)
(* flush is started exactly when the record was created.                   *)
C31_LazyStatusRead ==
    /\ [][\A p \in Handlers : ReadsStatus(p) =>
             LET id == proc[p].req.id
                 got == IF proc[p].pc = "sk_default" THEN proc'[p].body ELSE proc'[p].req.arg
                 flush == IF proc[p].pc = "sk_default" THEN proc'[p].pc = "ss_copy"
                          ELSE proc'[p].needs
             IN  /\ db' = db
                 /\ IF id \in DOMAIN statuses
                    THEN got = statuses[id] /\ statuses' = statuses /\ ~flush
                    ELSE got = "Pending" /\ statuses' = Put(statuses, id, "Pending") /\ flush]_vars
    /\ [][\A p \in Handlers :
             (proc[p].pc = "ek_upsert" /\ proc'[p].pc \notin {"ek_upsert", "crashed"}) =>
                (proc'[p].pc = "ss_copy" <=> proc[p].needs)]_vars

\* statusForKeep of a content request for b has found no record, a
\* concurrent refresh having removed the one ensureKeepNoteCached had made:
\* it has stored Pending, put it in the response and started the flush.
C31_Witness ==
    /\ proc[1].pc = "ss_copy" /\ proc[1].ret = <<"end">>
    /\ proc[1].req.kind = "content" /\ proc[1].req.id = "b"
    /\ proc[1].body = "Pending"
    /\ "b" \in DOMAIN statuses /\ statuses["b"] = "Pending"

(***************************************************************************)
(* Every operation that touches the status table, side by side: status     *)
(* edits, mode changes, note detail and content requests, registry reads   *)
(* with their refresh, and the scheduler's ticks.                          *)
(***************************************************************************)
\* The scheduler ticks this specification follows.
MaxTableTicks == 2

NextTable ==
    \/ polls < MaxTableTicks /\ runPoller
    \/ broadcastTick
    \/ \E id \in {"a"}, status \in {"Invalid", "Complete"} : handleStatus(1, id, status)
    \/ handleStatusTitle(1)
    \/ handleStatusBroadcast(1)
    \/ \E newMode \in {"AUTO", "MANUAL"} : handleMode(1, newMode)
    \/ \E id \in {"b"} : handleNoteDetail(1, id)
    \/ \E id \in {" b "} : handleGetRegistryContent(1, id)
    \/ ensureStatusDefault(1)
    \/ ensureKeepNoteCached(1)
    \/ statusForKeep(1)
    \/ handleRegistry(2, "")
    \/ handleRegistryRead(2)
    \/ handleRegistryReread(2)
    \/ handleRegistryEnrich(2)
    \/ handleRegistryWrite(2)
    \/ \E p \in Handlers :
          \/ RefreshStep(p)
          \/ SnapshotStep(p)
          \/ BroadcastRegistryStep(p)

SpecTable == InitStale /\ [][NextTable]_vars

\* The step in which p runs the reconcile section of a refresh whose
\* listing succeeded.
Reconciles(p) == proc[p].pc = "rf_cleanup" /\ proc'[p].pc \notin {"rf_cleanup", "crashed"}

(* C32: a record leaves the status table only in the reconcile step of a   *)
(* refresh whose listing succeeded, and then only records of ids that are  *)
(* not notes of the fetched list; every other step keeps every id that     *)
(* has a record.                                                           *)
C32_OnlyReconcileDeletes ==
    [][(DOMAIN statuses \ DOMAIN statuses') # {} =>
          \E p \in Procs :
              /\ Reconciles(p)
              /\ proc[p].fetched \in ProviderLists
              /\ (DOMAIN statuses \ DOMAIN statuses') \cap KeepIDs(proc[p].fetched) = {}]_vars

\* The reconcile of a refresh has removed the record of b, while the status
\* edit, mode change or lazy read of the other request and a scheduler tick
\* have run.
C32_Witness ==
    /\ "b" \notin DOMAIN statuses
    /\ "a" \in DOMAIN statuses
    /\ proc[1].pc = "done" /\ proc[1].req.kind \in {"status", "mode", "detail", "content"}
    /\ proc[1].resp = 200
    /\ proc[2].pc = "done"
    /\ polls > 0

(***************************************************************************)
(* Note deletes with a subscriber connected.                               *)
(***************************************************************************)
NextNoteDelete ==
    \E p \in Handlers :
        \/ \E id \in IdInputs : handleDelete(p, id)
        \/ handleDeleteCall(p)
        \/ RefreshStep(p)
        \/ SnapshotStep(p)
        \/ BroadcastRegistryStep(p)

SpecNoteDelete == InitStale /\ [][NextNoteDelete]_vars

\* The step in which DeleteNote returns to p.
DeleteReturns(p) == proc[p].pc = "hd_delete" /\ proc'[p].pc \notin {"hd_delete", "crashed"}

\* The step in which p, serving a note delete, writes its response.
DeleteResponds(p) ==
    proc[p].req.kind = "delete" /\ proc[p].pc # "done" /\ proc'[p].pc = "done"

(* C33: when DeleteNote fails the request ends with 500 in that very step  *)
(* and cache, expiry, status table, database and every queue are as before *)
(* (no refresh, no event). When it succeeds the handler runs               *)
(* refreshRegistryCache, which installs the list it fetched, and then      *)
(* broadcastRegistry; it answers 200 only in the step that has sent the    *)
(* snapshot event to the subscribers. DeleteNote is called in MANUAL only. *)
C33_DeleteFailureSurfaced ==
    /\ [][\A p \in Handlers : DeleteReturns(p) =>
             /\ proc[p].req.arg = "MANUAL"
             /\ <<cacheItems', expiresAt', statuses', db', queue', mode'>> =
                   <<cacheItems, expiresAt, statuses, db, queue, mode>>
             /\ \/ proc'[p].pc = "done" /\ proc'[p].resp = 500
                \/ /\ proc'[p].pc = "rf_list"
                   /\ proc'[p].ret = <<"br_read", "end">>
                   /\ proc'[p].final = 200]_vars
    /\ [][\A p \in Handlers : (DeleteResponds(p) /\ proc'[p].resp = 200) =>
             /\ proc[p].pc = "br_send"
             /\ queue' = Send(queue, clients, RegistryMsg(proc[p].items))
             /\ \A c \in clients : Len(queue[c]) < chanCap =>
                   queue'[c][Len(queue'[c])].event = ""]_vars
    /\ [][\A p \in Handlers :
             (proc[p].req.kind = "delete" /\ proc[p].pc = "rf_swap" /\ proc'[p].pc # "rf_swap"
              /\ proc'[p].pc # "crashed") =>
                (cacheItems' = proc[p].fetched /\ expiresAt' = now + cacheTTL)]_vars
    /\ [](\A p \in Handlers :
             (proc[p].pc = "done" /\ proc[p].req.kind = "delete") =>
                /\ proc[p].resp \in {200, 400, 403, 500}
                /\ proc[p].resp \in {200, 500} <=>
                      (proc[p].req.id # "" /\ proc[p].req.arg = "MANUAL"))

\* One note delete has failed and one has succeeded: the second has
\* installed the list without b and the subscriber holds its snapshot event.
C33_Witness ==
    \E p, q \in Handlers :
        /\ proc[p].pc = "done" /\ proc[p].req.kind = "delete" /\ proc[p].resp = 500
        /\ proc[q].pc = "done" /\ proc[q].req.kind = "delete" /\ proc[q].resp = 200
        /\ proc[q].req.id = "b"
        /\ cacheItems = <<itemA>>
        /\ queue[1] # <<>> /\ queue[1][Len(queue[1])].event = ""

(***************************************************************************)
(* nextStatus applied to a status and then to its own results, in either   *)
(* direction.                                                              *)
(***************************************************************************)
\* How often nextStatus is applied in a row.
MaxApplied == 8

\* The statuses nextStatus is first applied to: the seven of STATUS_CYCLE
\* and two it does not know.
CycleInputs == allowedStatuses \cup {"", "Bogus"}

\* nextStatus(current, direction) applied to the latest status of the chain.
applyNextStatus(direction) ==
    /\ cycled.trail # <<>>
    /\ Len(cycled.directions) < MaxApplied
    /\ cycled' = [trail   |-> Append(cycled.trail, nextStatus(cycled.trail[Len(cycled.trail)], direction)),
                  directions |-> Append(cycled.directions, direction)]
    /\ UNCHANGED <<mode, statuses, cacheItems, expiresAt, clients, queue, conn, db, disk, logged, now,
                   remaining, polls, wsDeleted, wsListed, proc>>

InitCycle ==
    /\ db = [mode |-> "AUTO", statuses |-> Backfilled(EmptyMap, <<itemA, itemB, itemD>>)]
    /\ disk = NoLegacy
    /\ logged = {}
    /\ \E s \in CycleInputs : cycled = [trail |-> <<s>>, directions |-> <<>>]
    /\ mode = "AUTO"
    /\ statuses = Backfilled(EmptyMap, <<itemA, itemB, itemD>>)
    /\ cacheItems = <<itemA, itemB, itemD>>
    /\ now = 1
    /\ expiresAt = now + cacheTTL
    /\ clients = {1}
    /\ queue = [c \in Chans |-> <<>>]
    /\ conn = [c \in Chans |-> IF c = 1 THEN "open" ELSE "free"]
    /\ remaining = autoRefreshTicks
    /\ polls = 0
    /\ wsDeleted = {}
    /\ wsListed = cacheItems
    /\ proc = [p \in Procs |->
                 IF p = Poller THEN [IdleProc EXCEPT !.pc = "wait"]
                 ELSE IF p = Sender(1) THEN Finished(IdleProc, 0)
                 ELSE IdleProc]

NextCycle == \E direction \in {"forward", "back"} : applyNextStatus(direction)

SpecCycle == InitCycle /\ [][NextCycle]_vars

\* The applications i .. i + n - 1 all went in direction d.
Applied(i, n, d) ==
    /\ i + n - 1 <= Len(cycled.directions)
    /\ \A k \in i .. i + n - 1 : cycled.directions[k] = d

\* C34: over the order Pending, Execute, Active, Blocked, Review, Complete,
\* Error the cycling is a closed cycle of length 7: from each of the seven
\* statuses forward followed by back, and back followed by forward, returns
\* to it; forward moves to the next status of the order (Error to Pending);
\* seven times forward returns to the start and passes through seven
\* different statuses.
C34_ClosedCycle ==
    LET order == <<"Pending", "Execute", "Active", "Blocked", "Review", "Complete", "Error">>
    IN  \A i \in 1 .. Len(cycled.directions) :
           cycled.trail[i] \in allowedStatuses =>
              /\ cycled.trail[i + 1] \in allowedStatuses
              /\ cycled.directions[i] = "forward" =>
                    \E k \in 1 .. 7 : /\ order[k] = cycled.trail[i]
                                      /\ order[(k % 7) + 1] = cycled.trail[i + 1]
              /\ (Applied(i, 1, "forward") /\ Applied(i + 1, 1, "back")) => cycled.trail[i + 2] = cycled.trail[i]
              /\ (Applied(i, 1, "back") /\ Applied(i + 1, 1, "forward")) => cycled.trail[i + 2] = cycled.trail[i]
              /\ Applied(i, 7, "forward") =>
                    /\ cycled.trail[i + 7] = cycled.trail[i]
                    /\ \A a, b \in i .. i + 6 : a # b => cycled.trail[a] # cycled.trail[b]

\* Seven applications forward from Blocked are back at Blocked, and the
\* application backward after them gave Active.
C34_Witness ==
    /\ Len(cycled.directions) = 8
    /\ Applied(1, 7, "forward")
    /\ cycled.directions[8] = "back"
    /\ cycled.trail[1] = "Blocked"
    /\ cycled.trail[8] = "Blocked"
    /\ cycled.trail[9] = "Active"

(***************************************************************************)
(* Sends and the closing of a subscriber's channel.                        *)
(***************************************************************************)
\* The step in which the initial-snapshot sender of channel c executes its
\* send statement.
InitialSends(c) == proc[Sender(c)].pc = "si_send" /\ proc'[Sender(c)].pc # "si_send"

\* C35: no message is sent on a subscriber's channel after the channel has
\* been closed: a publish never enqueues to a closed channel, and the
\* initial-snapshot sender never executes its send on a closed channel.
C35_NoSendAfterClose ==
    /\ [][\A c \in Chans : conn[c] = "closed" => queue'[c] = queue[c]]_vars
    /\ [][\A c \in Chans : InitialSends(c) => conn[c] # "closed"]_vars

(***************************************************************************)
(* The values of the mode.                                                 *)
(***************************************************************************)
\* C36: in every reachable state, the state right after a start with or
\* without a migration included, the in-memory mode is AUTO or MANUAL.
C36_ModeIsAutoOrManual == mode \in {"AUTO", "MANUAL"}

(***************************************************************************)
(* The values of the statuses: the program starts next to a legacy file    *)
(* or without one, and serves status edits and note-content reads with     *)
(* the refreshes, upserts and flushes they cause.                          *)
(***************************************************************************)
NextValues ==
    \/ NextStartup
    \/ \E p \in 1 .. NumEditors : handleStatusBroadcast(p)
    \/ \E p \in Handlers \ (1 .. NumEditors) :
          \/ \E id \in {"a", " b "} : handleGetRegistryContent(p, id)
          \/ ensureStatusDefault(p)
          \/ ensureKeepNoteCached(p)
          \/ statusForKeep(p)
          \/ SnapshotStep(p)
          \/ BroadcastRegistryStep(p)
          \/ RefreshStep(p)

\* The start of SpecStartup without a legacy file or with the legacy file
\* that holds Keep and Bogus.
InitValues ==
    /\ InitStartup
    /\ disk.legacy = NoFile \/ (disk.legacy.parses /\ disk.legacy.mode = "MANUAL"
                                   /\ DOMAIN disk.legacy.statuses = {"a", "x"})

SpecValues == InitValues /\ [][NextValues]_vars

\* C37: in every reachable state every value of the in-memory status table
\* and every status in the durable store is one of the seven recognized
\* statuses.
C37_StatusesRecognized ==
    /\ \A id \in DOMAIN statuses : statuses[id] \in allowedStatuses
    /\ \A id \in DOMAIN db.statuses : db.statuses[id] \in allowedStatuses

\* The program migrated a file holding Bogus for x, an edit set a to
\* Complete and a content read created the record of b; all are durable.
C37_Witness ==
    /\ disk.backup.present
    /\ "x" \in DOMAIN disk.backup.statuses /\ disk.backup.statuses["x"] = "Bogus"
    /\ "x" \in DOMAIN db.statuses /\ db.statuses["x"] = "Pending"
    /\ "a" \in DOMAIN db.statuses /\ db.statuses["a"] = "Complete"
    /\ "b" \in DOMAIN db.statuses /\ db.statuses["b"] = "Pending"
    /\ "b" \in DOMAIN statuses

(***************************************************************************)
(* Concurrent refreshes.                                                   *)
(***************************************************************************)
\* C38: once the refreshes that ran concurrently have all finished, the
\* cache holds the list that the workspace service returned to the listing
\* call made last: a refresh that fetched earlier does not overwrite the
\* list of a refresh that fetched later.
C38_LastFetchWins ==
    (\A p \in Handlers : proc[p].pc \in {"idle", "done"}) => cacheItems = wsListed

(***************************************************************************)
(* The poller's calls of the workspace listing.                            *)
(***************************************************************************)
\* The step in which the poller calls ListRegistryItems.
PollerLists == proc[Poller].pc = "rf_list" /\ proc'[Poller].pc # "rf_list"

\* C39: in one countdown cycle the poller calls the workspace listing at
\* most once: the call it makes is the one of the refresh at counter zero,
\* and publishing the snapshot makes no call, whatever the cache holds.
C39_OneListingPerCycle ==
    /\ [][proc[Poller].pc = "br_read" => proc'[Poller].pc # "rf_list"]_vars
    /\ [][PollerLists => proc[Poller].ret = <<"br_read", "pt_reset">>]_vars

(***************************************************************************)
(* The events of a status edit.                                            *)
(***************************************************************************)
\* C40: every accepted status edit publishes exactly one status event,
\* carrying the id, the new status and the item's title, and exactly one
\* snapshot event, whether or not the id is cached and whatever its title:
\* the title lookup is always followed by the status broadcast, which offers
\* that one event to every subscriber, and the edit returns from the step
\* that sends the snapshot.
C40_EditPublishesBoth ==
    /\ [][\A p \in Handlers :
             (proc[p].pc = "hs_title" /\ proc'[p].pc # "hs_title") => proc'[p].pc = "hs_bcast"]_vars
    /\ [][\A p \in Handlers :
             (proc[p].pc = "hs_bcast" /\ proc'[p].pc # "hs_bcast") =>
                queue' = Send(queue, clients,
                              StatusMsg(proc[p].req.id, proc[p].req.arg, getItemTitle(proc[p].req.id)))]_vars
    /\ [][\A p \in Handlers :
             (AcceptedEdit(p) /\ proc[p].pc # "done" /\ proc'[p].pc = "done") =>
                (proc[p].pc = "br_send" /\ proc'[p].resp = 200)]_vars
====
